---------------------------- MODULE Spec2Model ----------------------------
(***************************************************************************)
(* A model of the geppetto support workflow engine:                        *)
(*   geppetto/ai_support_agent/agent.py   SupportAgent                     *)
(*   geppetto/ai_support_agent/models.py  SupportContext, TicketAction ... *)
(*   geppetto/slack_handler.py            SlackHandler                     *)
(*   geppetto/freshdesk_handler/api.py    FreshdeskAPI                     *)
(*   geppetto/llm_controller.py           LLMController                    *)
(*                                                                         *)
(* Python values are modelled as follows.                                  *)
(*   Optional[T]   a sequence of length <= 1: None is <<>>, a value v is   *)
(*                 <<v>>.  "x is not None" is IsSet(x); the truth value    *)
(*                 Python gives an Optional[int] in "if x" / "not x" is    *)
(*                 Truthy(x), which is false for None and for 0.           *)
(*   object        a SupportContext is a mutable object; heap[r] holds the *)
(*                 fields of the object with reference r, and the store    *)
(*                 self.contexts maps a conversation_id to a reference.    *)
(*   float         confidence is kept in hundredths (0.92 is 92).          *)
(*   datetime.now  a clock that never runs backwards; one invocation       *)
(*                 reads one instant.                                      *)
(*   uuid4()       an identifier no context holds yet.                     *)
(* The LLM controller and the ticketing client are the agent's injected    *)
(* collaborators: what an awaited call on them yields (a value or an       *)
(* exception) is chosen by the environment.                                *)
(***************************************************************************)
EXTENDS Integers, Sequences, FiniteSets, TLC

\* ------------------------------------------------------------------ bounds
MaxCtx == 2

MaxTicketId == 1

MaxTime == 1

MaxLog == 3

MaxTasks == 2

\* ------------------------------------------------------------ Python values
None == <<>>

Some(v) == <<v>>

IsSet(x) == x # None

Truthy(x) == x # None /\ x[1] # 0

\* ----------------------------------------------------------------- domains
Refs == 1..MaxCtx

ForeignUuid == MaxCtx + 1

TicketIds == 0..MaxTicketId

Times == 0..MaxTime

Surfaces ==
  { [user_id |-> "U1", channel_id |-> "C1", thread_ts |-> Some("T1")],
    [user_id |-> "U2", channel_id |-> "C2", thread_ts |-> None] }

Messages == {"my screen is black"}

SYSTEM_PROMPT ==
  "You are an IT support agent. Analyze the user's issue and provide structured responses to help resolve their problem."

REQUESTER_EMAIL == "user@example.com"

\* models.py: WorkflowState
WorkflowState ==
  { "initial", "gathering_info", "analyzing", "resolving",
    "verifying", "escalating", "resolved", "closed" }

\* models.py: TicketAction, as the validated objects the router hands over
TicketAction(a, s, p) ==
  [ action |-> a, priority |-> p, status |-> s,
    subject |-> Some("Network issue"), description |-> Some("no internet"),
    tags |-> <<"network">>, reasoning |-> "user reported outage",
    next_steps |-> <<>> ]

Directives ==
  { TicketAction("create", None, None), TicketAction("create", Some(2), Some(1)),
    TicketAction("update", Some(3), Some(2)),
    TicketAction("resolve", None, None), TicketAction("escalate", Some(3), Some(2)) }

AgentAction(t) ==
  [ reasoning |-> "r", action_type |-> t, parameters |-> <<>>, confidence |-> 92 ]

ITSupportResponse(ta, t, nh) ==
  [ confidence |-> 92,
    understanding |-> "User is having network connectivity issues",
    solution |-> Some("Check network settings and restart router"),
    needs_human_intervention |-> nh,
    follow_up_questions |-> <<"Have you tried restarting your computer?">>,
    ticket_action |-> ta,
    agent_action |-> AgentAction(t) ]

Responses ==
  { ITSupportResponse(None, "provide_solution", FALSE),
    ITSupportResponse(None, "ask_question", TRUE) }
  \cup { ITSupportResponse(Some(d), "create_ticket", FALSE) :
           d \in {x \in Directives : x.action = "create"} }
  \cup { ITSupportResponse(Some(d), "update_ticket", FALSE) :
           d \in {x \in Directives : x.action = "update"} }
  \cup { ITSupportResponse(Some(d), "escalate", TRUE) :
           d \in {x \in Directives : x.action \in {"resolve", "escalate"}} }

\* what awaiting self.llm.generate_with_schema(...) yields
LlmOutcomes ==
  { [ok |-> TRUE, response |-> r] : r \in Responses }
  \cup { [ok |-> FALSE, error |-> "Test error"] }

\* what awaiting self.freshdesk.create_ticket / update_ticket yields
FdOutcomes ==
  { [ok |-> TRUE, ticket_id |-> i] : i \in TicketIds }
  \cup { [ok |-> FALSE, error |-> "Rate limit exceeded"] }

VARIABLES
  heap,        \* the SupportContext objects, by reference
  contexts,    \* SupportAgent.contexts: conversation_id -> reference
  now,         \* the latest instant the clock has shown
  op,          \* the latest invocation: its name and arguments
  ret,         \* what the latest invocation returned or raised
  events,      \* the audit events the latest invocation emitted, in order
  calls,       \* the ticketing client calls the latest invocation made
  llm_calls,   \* the router calls the latest invocation made
  says,        \* the chat replies the latest invocation sent
  client,      \* the ticketing client: its headers and the invocation in progress
  router,      \* the LLMController object, None while none has been constructed
  log,         \* the lines written with logging.error, oldest first
  tasks        \* the process_message coroutines in flight, each with its position

vars ==
  <<heap, contexts, now, op, ret, events, calls, llm_calls, says, client, router, log, tasks>>

\* the agent's mutable state and the observations of one invocation, as one value
Machine ==
  [ heap |-> heap, contexts |-> contexts, events |-> events, calls |-> calls,
    llm_calls |-> llm_calls, says |-> says ]

Fresh(m) == [m EXCEPT !.events = <<>>, !.calls = <<>>, !.llm_calls = <<>>, !.says = <<>>]

Return(v) == [kind |-> "return", value |-> v]

Raise(e) == [error |-> e, kind |-> "raise"]

NoRaise == [error |-> "", raised |-> FALSE]

\* ------------------------------------------------------------- models.py
\* a generator that hands out the same identifier again
uuid4_repeating(h) == 1

\* uuid4(): an identifier that no existing context holds
uuid4(h) == CHOOSE u \in Refs : \A r \in DOMAIN h : h[r].conversation_id # u

SupportContext(user_id, channel_id, thread_ts, t, h) ==
  [ user_id |-> user_id,
    channel_id |-> channel_id,
    thread_ts |-> thread_ts,
    ticket_id |-> None,
    conversation_id |-> uuid4(h),
    current_state |-> "initial",
    last_updated |-> t,
    category |-> None,
    urgency |-> None,
    summary |-> None,
    gathered_info |-> <<>>,
    missing_info |-> <<>> ]

\* an event that leaves out the context's ticket
SupportEvent_no_ticket(event_type, context, action, details, t) ==
  [ user_id |-> context.user_id,
    channel_id |-> context.channel_id,
    ticket_id |-> None,
    conversation_id |-> context.conversation_id,
    event_type |-> event_type,
    details |-> details,
    timestamp |-> t,
    workflow_state |-> context.current_state,
    action_taken |-> action ]

SupportEvent(event_type, context, action, details, t) ==
  [ user_id |-> context.user_id,
    channel_id |-> context.channel_id,
    ticket_id |-> context.ticket_id,
    conversation_id |-> context.conversation_id,
    event_type |-> event_type,
    details |-> details,
    timestamp |-> t,
    workflow_state |-> context.current_state,
    action_taken |-> action ]

\* -------------------------------------------------------------- agent.py
_log_event(m, event_type, ref, action, details, t) ==
  [m EXCEPT !.events = Append(@, SupportEvent(event_type, m.heap[ref], action, details, t))]

\* a lookup that never finds the conversation
KnownConversation_never(m, conversation_id) == FALSE

\* "if conversation_id and conversation_id in self.contexts" (a UUID is always true)
KnownConversation(m, conversation_id) ==
  IsSet(conversation_id) /\ conversation_id[1] \in DOMAIN m.contexts

\* a store that holds the context registered last and nothing else
RegisterContext_replacing(store, context, ref) == (context.conversation_id :> ref)

\* "self.contexts[context.conversation_id] = context"
RegisterContext(store, context, ref) == (context.conversation_id :> ref) @@ store

\* a store that registers the new context under the id the caller supplied
get_or_create_context_supplied_key(m, user_id, channel_id, thread_ts, conversation_id, t) ==
  IF KnownConversation(m, conversation_id)
  THEN [ret |-> m.contexts[conversation_id[1]], m |-> m]
  ELSE LET context == SupportContext(user_id, channel_id, thread_ts, t, m.heap)
           ref == Len(m.heap) + 1
           key == IF IsSet(conversation_id) THEN conversation_id[1]
                  ELSE context.conversation_id
           m1 == [m EXCEPT !.heap = Append(@, context), !.contexts = (key :> ref) @@ @]
       IN  [ret |-> ref,
            m |-> _log_event(m1, "context_created", ref, "create_context", None, t)]

get_or_create_context(m, user_id, channel_id, thread_ts, conversation_id, t) ==
  IF KnownConversation(m, conversation_id)
  THEN [ret |-> m.contexts[conversation_id[1]], m |-> m]
  ELSE LET context == SupportContext(user_id, channel_id, thread_ts, t, m.heap)
           ref == Len(m.heap) + 1
           m1 == [m EXCEPT !.heap = Append(@, context),
                           !.contexts = RegisterContext(@, context, ref)]
       IN  [ret |-> ref,
            m |-> _log_event(m1, "context_created", ref, "create_context", None, t)]

\* a create branch that takes every directive on a context without ticket
CreateGuard_any_action(action, context) == ~Truthy(context.ticket_id)

\* "action.action == 'create' and not context.ticket_id"
CreateGuard(action, context) == action.action = "create" /\ ~Truthy(context.ticket_id)

\* an update branch that also takes escalate directives
UpdateGuard_escalate(action, context) ==
  action.action \in {"update", "escalate"} /\ Truthy(context.ticket_id)

\* "action.action == 'update' and context.ticket_id"
UpdateGuard(action, context) == action.action = "update" /\ Truthy(context.ticket_id)

\* a create call with status and priority passed in each other's place
CreateCall_swapped(action, fd) ==
  [ priority |-> action.status,
    status |-> action.priority,
    subject |-> action.subject,
    description |-> action.description,
    tags |-> action.tags,
    op |-> "create_ticket",
    email |-> REQUESTER_EMAIL,
    outcome |-> fd ]

CreateCall(action, fd) ==
  [ priority |-> action.priority,
    status |-> action.status,
    subject |-> action.subject,
    description |-> action.description,
    tags |-> action.tags,
    op |-> "create_ticket",
    email |-> REQUESTER_EMAIL,
    outcome |-> fd ]

UpdateCall(action, context, fd) ==
  [ priority |-> action.priority,
    status |-> action.status,
    ticket_id |-> context.ticket_id[1],
    op |-> "update_ticket",
    outcome |-> fd ]

\* an except clause that logs the failure and forgets to raise it again
TicketError_swallowed(m, ref, error, t) ==
  [ error |-> "",
    m |-> _log_event(m, "ticket_error", ref, "error", Some([error |-> error]), t),
    raised |-> FALSE ]

\* the except clause of _handle_ticket_action
TicketError(m, ref, error, t) ==
  [ error |-> error,
    m |-> _log_event(m, "ticket_error", ref, "error", Some([error |-> error]), t),
    raised |-> TRUE ]

\* a handler that marks the context resolved when the directive says resolve
_handle_ticket_action_resolving(m, ref, action, fd, t) ==
  LET context == m.heap[ref] IN
  IF CreateGuard(action, context)
  THEN LET m1 == [m EXCEPT !.calls = Append(@, CreateCall(action, fd))] IN
       IF fd.ok
       THEN LET m2 == [m1 EXCEPT !.heap[ref].ticket_id = Some(fd.ticket_id)] IN
            [ m |-> _log_event(m2, "ticket_created", ref, "create_ticket",
                               Some([ticket_id |-> fd.ticket_id]), t) ] @@ NoRaise
       ELSE TicketError(m1, ref, fd.error, t)
  ELSE IF UpdateGuard(action, context)
  THEN LET m1 == [m EXCEPT !.calls = Append(@, UpdateCall(action, context, fd))] IN
       IF fd.ok
       THEN [ m |-> _log_event(m1, "ticket_updated", ref, "update_ticket",
                               Some([ticket_id |-> context.ticket_id[1]]), t) ] @@ NoRaise
       ELSE TicketError(m1, ref, fd.error, t)
  ELSE IF action.action = "resolve"
  THEN [m |-> [m EXCEPT !.heap[ref].current_state = "resolved"]] @@ NoRaise
  ELSE [m |-> m] @@ NoRaise

_handle_ticket_action(m, ref, action, fd, t) ==
  LET context == m.heap[ref] IN
  IF CreateGuard(action, context)
  THEN LET m1 == [m EXCEPT !.calls = Append(@, CreateCall(action, fd))] IN
       IF fd.ok
       THEN LET m2 == [m1 EXCEPT !.heap[ref].ticket_id = Some(fd.ticket_id)] IN
            [ m |-> _log_event(m2, "ticket_created", ref, "create_ticket",
                               Some([ticket_id |-> fd.ticket_id]), t) ] @@ NoRaise
       ELSE TicketError(m1, ref, fd.error, t)
  ELSE IF UpdateGuard(action, context)
  THEN LET m1 == [m EXCEPT !.calls = Append(@, UpdateCall(action, context, fd))] IN
       IF fd.ok
       THEN [ m |-> _log_event(m1, "ticket_updated", ref, "update_ticket",
                               Some([ticket_id |-> context.ticket_id[1]]), t) ] @@ NoRaise
       ELSE TicketError(m1, ref, fd.error, t)
  ELSE [m |-> m] @@ NoRaise

\* an exchange with the user's message ahead of the system instruction
ChatMessages_user_first(message) ==
  << [role |-> "user", content |-> message], [role |-> "system", content |-> SYSTEM_PROMPT] >>

ChatMessages(message) ==
  << [role |-> "system", content |-> SYSTEM_PROMPT], [role |-> "user", content |-> message] >>

\* an except clause that raises the failure again without logging it
ProcessingError_unlogged(m, ref, error, t) == [ret |-> Raise(error), m |-> m]

\* the except clause of process_message
ProcessingError(m, ref, error, t) ==
  [ ret |-> Raise(error),
    m |-> _log_event(m, "processing_error", ref, "error", Some([error |-> error]), t) ]

\* a step that opens a ticket on its own when the response asks for none
ApplyDirective_default_create(m, ref, response, fd, t) ==
  _handle_ticket_action(m, ref,
                        IF IsSet(response.ticket_action) THEN response.ticket_action[1]
                        ELSE TicketAction("create", None, None),
                        fd, t)

\* "if response.ticket_action: await self._handle_ticket_action(...)"
ApplyDirective(m, ref, response, fd, t) ==
  IF IsSet(response.ticket_action)
  THEN _handle_ticket_action(m, ref, response.ticket_action[1], fd, t)
  ELSE [m |-> m] @@ NoRaise

\* a turn that leaves last_updated as it found it
RefreshLastUpdated_skipped(m, ref, t) == m

\* "context.last_updated = datetime.now(timezone.utc)"
RefreshLastUpdated(m, ref, t) == [m EXCEPT !.heap[ref].last_updated = t]

\* a turn that also files the router's understanding as the context's summary
LogProcessed_summarising(m, ref, response, t) ==
  _log_event([m EXCEPT !.heap[ref].summary = Some(response.understanding)],
             "message_processed", ref, response.agent_action.action_type,
             Some([ confidence |-> response.confidence,
                    needs_human |-> response.needs_human_intervention ]), t)

\* the closing _log_event("message_processed", ...) of process_message
LogProcessed(m, ref, response, t) ==
  _log_event(m, "message_processed", ref, response.agent_action.action_type,
             Some([ confidence |-> response.confidence,
                    needs_human |-> response.needs_human_intervention ]), t)

process_message(m, message, ref, llm, fd, t) ==
  LET m0 == RefreshLastUpdated(m, ref, t)
      m1 == [m0 EXCEPT !.llm_calls = Append(@, [ outcome |-> llm,
                                                 messages |-> ChatMessages(message),
                                                 output_schema |-> "ITSupportResponse" ])]
  IN  IF ~llm.ok
      THEN ProcessingError(m1, ref, llm.error, t)
      ELSE LET response == llm.response
               h == ApplyDirective(m1, ref, response, fd, t)
           IN  IF h.raised
               THEN ProcessingError(h.m, ref, h.error, t)
               ELSE [ret |-> Return(response), m |-> LogProcessed(h.m, ref, response, t)]

\* ------------------------------------------------------- slack_handler.py
\* inbound chat events: the first message of a thread and a reply inside it
SlackEvents ==
  { [ thread_ts |-> None,
      user |-> "U1",
      channel |-> "C1",
      ts |-> "T1",
      text |-> "I can't connect to the internet" ],
    [ thread_ts |-> Some("T1"),
      user |-> "U1",
      channel |-> "C1",
      ts |-> "T2",
      text |-> "still broken" ] }

ERROR_TEXT ==
  "I apologize, but I encountered an error while processing your request. Please try again or contact support if the issue persists."

\* event.get("thread_ts", event.get("ts"))
ThreadOf(event) == IF IsSet(event.thread_ts) THEN event.thread_ts[1] ELSE event.ts

_get_message_context(event) ==
  [ user_id |-> event.user, channel_id |-> event.channel, thread_ts |-> ThreadOf(event) ]

Blocks(context, response) ==
  << [text |-> response.understanding, type |-> "section"], [text |-> "", type |-> "divider"] >>
  \o (IF IsSet(response.solution) /\ response.solution[1] # ""
      THEN << [text |-> response.solution[1], type |-> "section"] >> ELSE <<>>)
  \o (IF response.follow_up_questions # <<>>
      THEN << [text |-> "Follow-up Questions", type |-> "section"] >> ELSE <<>>)
  \o (IF Truthy(context.ticket_id)
      THEN << [ticket_id |-> context.ticket_id[1], text |-> "Ticket ID", type |-> "context"] >>
      ELSE <<>>)

_send_response(m, ref, response) ==
  [m EXCEPT !.says = Append(@, [ thread_ts |-> m.heap[ref].thread_ts,
                                 text |-> response.understanding,
                                 blocks |-> Blocks(m.heap[ref], response) ])]

\* an adapter that answers nothing when the turn has failed
handle_message_silent(m, event, llm, fd, t) ==
  LET context_data == _get_message_context(event)
      g == get_or_create_context(m, context_data.user_id, context_data.channel_id,
                                 Some(context_data.thread_ts), None, t)
      p == process_message(g.m, event.text, g.ret, llm, fd, t)
  IN  [ m |-> IF p.ret.kind = "return"
              THEN _send_response(p.m, g.ret, p.ret.value)
              ELSE p.m,
        context |-> g.ret ]

handle_message(m, event, llm, fd, t) ==
  LET context_data == _get_message_context(event)
      g == get_or_create_context(m, context_data.user_id, context_data.channel_id,
                                 Some(context_data.thread_ts), None, t)
      p == process_message(g.m, event.text, g.ret, llm, fd, t)
  IN  [ m |-> IF p.ret.kind = "return"
              THEN _send_response(p.m, g.ret, p.ret.value)
              ELSE [p.m EXCEPT !.says = Append(@, [ thread_ts |-> Some(ThreadOf(event)),
                                                    text |-> ERROR_TEXT ])],
        context |-> g.ret ]

\* ------------------------------------------------ freshdesk_handler/models.py
\* an IntEnum member, a plain int and None, as the ticketing client's arguments:
\* only an enum member has the attribute .value
TicketStatus == [OPEN |-> 2, PENDING |-> 3, RESOLVED |-> 4, CLOSED |-> 5]

TicketPriority == [LOW |-> 1, MEDIUM |-> 2, HIGH |-> 3, URGENT |-> 4]

\* a lookup that lands on the member one above
Member_off_by_one(cls, value) == [value |-> value + 1, cls |-> cls]

Member(cls, value) == [value |-> value, cls |-> cls]

PyInt(value) == [value |-> value, cls |-> "int"]

PyNone == [value |-> 0, cls |-> "NoneType"]

HasValue(x) == x.cls \in {"TicketStatus", "TicketPriority"}

EnumValues(enum) == { enum[k] : k \in DOMAIN enum }

\* an exception: its class, its message text and what the message was formatted with
Error(type, text, arg) == [text |-> text, type |-> type, arg |-> arg]

\* a ticket object of the backend's JSON; a key the object lacks is None
TicketJson(id, status, requester_id) ==
  [ priority |-> Some(1),
    status |-> Some(status),
    subject |-> Some("Test Ticket"),
    description |-> Some("Test Description"),
    tags |-> Some(<<"test">>),
    id |-> Some(id),
    requester_id |-> requester_id,
    created_at |-> Some("2024-12-19T12:00:00Z"),
    updated_at |-> Some("2024-12-19T12:00:00Z") ]

TicketKeys ==
  << "id", "subject", "description", "status", "priority", "requester_id",
     "created_at", "updated_at" >>

\* the keys from_api_response cannot read or convert, in the order it reads them
Faults(data) ==
  SelectSeq(TicketKeys,
            LAMBDA k : \/ data[k] = None
                       \/ k = "status" /\ data[k][1] \notin EnumValues(TicketStatus)
                       \/ k = "priority" /\ data[k][1] \notin EnumValues(TicketPriority))

from_api_response(data) ==
  LET faults == Faults(data) IN
  IF faults = <<>>
  THEN Return([ priority |-> Member("TicketPriority", data.priority[1]),
                status |-> Member("TicketStatus", data.status[1]),
                subject |-> data.subject[1],
                description |-> data.description[1],
                tags |-> IF data.tags = None THEN <<>> ELSE data.tags[1],
                ticket_id |-> data.id[1],
                requester_id |-> data.requester_id[1],
                created_at |-> data.created_at[1],
                updated_at |-> data.updated_at[1] ])
  ELSE IF data[faults[1]] = None
  THEN Raise(Error("KeyError", faults[1], <<>>))
  ELSE Raise(Error("ValueError", "is not a valid enum value", data[faults[1]]))

\* --------------------------------------------------- freshdesk_handler/api.py
Bases ==
  [ FreshdeskError |-> "Exception", FreshdeskAPIError |-> "FreshdeskError",
    FreshdeskDataError |-> "FreshdeskError" ]

\* a response body: its text, and the object it parses to when it is JSON
JsonBody(text, data) == [text |-> text, json |-> Some(data)]

TextBody(text) == [text |-> text, json |-> None]

Bodies ==
  { JsonBody("ticket 1", TicketJson(1, 2, Some(42))),
    JsonBody("ticket 1 with status 9", TicketJson(1, 9, Some(42))),
    JsonBody("ticket 1 without requester_id", TicketJson(1, 2, None)),
    TextBody("<html>Bad Gateway</html>") }

Response(status_code, body) ==
  [kind |-> "response", status_code |-> status_code, body |-> body]

StatusCodes == 100..599

_validate_response_server_above(response) ==
  IF response.status_code = 429
  THEN Raise(Error("FreshdeskAPIError", "Rate limit exceeded", <<>>))
  ELSE IF response.status_code = 401
  THEN Raise(Error("FreshdeskAPIError", "Authentication failed", <<>>))
  ELSE IF response.status_code > 500
  THEN Raise(Error("FreshdeskAPIError", "Freshdesk server error: ",
                   <<response.status_code>>))
  ELSE IF response.status_code >= 400
  THEN Raise(Error("FreshdeskAPIError", "API error: ", <<response.body.text>>))
  ELSE IF response.body.json # None
  THEN Return(response.body.json[1])
  ELSE Raise(Error("FreshdeskDataError", "Invalid JSON response", <<>>))

_validate_response(response) ==
  IF response.status_code = 429
  THEN Raise(Error("FreshdeskAPIError", "Rate limit exceeded", <<>>))
  ELSE IF response.status_code = 401
  THEN Raise(Error("FreshdeskAPIError", "Authentication failed", <<>>))
  ELSE IF response.status_code >= 500
  THEN Raise(Error("FreshdeskAPIError", "Freshdesk server error: ",
                   <<response.status_code>>))
  ELSE IF response.status_code >= 400
  THEN Raise(Error("FreshdeskAPIError", "API error: ", <<response.body.text>>))
  ELSE IF response.body.json # None
  THEN Return(response.body.json[1])
  ELSE Raise(Error("FreshdeskDataError", "Invalid JSON response", <<>>))

\* what the HTTP library hands back for one request: a response, or an exception
ConnectionError ==
  [error |-> Error("ConnectionError", "connection refused", <<>>), kind |-> "exception"]

Answers ==
  {ConnectionError}
  \cup { Response(c, TextBody("error body")) : c \in {401, 404, 429, 500} }
  \cup { Response(200, b) : b \in Bodies }

\* one pass through an operation's body: the request it sent (if it got that far),
\* the answer, and what the body returned or raised
NotSent(error) == [request |-> None, answer |-> None, result |-> Raise(error)]

Exchange(request, answer, parse) ==
  [ request |-> Some(request), answer |-> Some(answer),
    result |-> IF answer.kind = "exception"
               THEN Raise(answer.error)
               ELSE LET result == _validate_response(answer) IN
                    IF result.kind = "return" /\ parse
                    THEN from_api_response(result.value)
                    ELSE result ]

NoValue(x) == Error("AttributeError", "object has no attribute 'value'", <<x.cls>>)

create_ticket(self, a, answer) ==
  IF ~HasValue(a.status) THEN NotSent(NoValue(a.status))
  ELSE IF ~HasValue(a.priority) THEN NotSent(NoValue(a.priority))
  ELSE Exchange([ ticket_id |-> None,
                  json |-> Some([ priority |-> a.priority.value,
                                  status |-> a.status.value,
                                  subject |-> a.subject,
                                  description |-> a.description,
                                  tags |-> IF a.tags = None THEN <<>> ELSE a.tags[1],
                                  email |-> a.email ]),
                  method |-> "POST",
                  path |-> "/tickets",
                  headers |-> self.headers,
                  files |-> None ], answer, TRUE)

get_ticket(self, a, answer) ==
  Exchange([ ticket_id |-> Some(a.ticket_id),
             json |-> None,
             method |-> "GET",
             path |-> "/tickets/{ticket_id}",
             headers |-> self.headers,
             files |-> None ], answer, TRUE)

\* an update that fills in OPEN when the caller supplied no status
update_ticket_defaulting(self, a, answer) ==
  IF a.status # PyNone /\ ~HasValue(a.status) THEN NotSent(NoValue(a.status))
  ELSE IF a.priority # PyNone /\ ~HasValue(a.priority) THEN NotSent(NoValue(a.priority))
  ELSE Exchange([ ticket_id |-> Some(a.ticket_id),
                  json |-> Some([ priority |-> IF a.priority = PyNone THEN None
                                               ELSE Some(a.priority.value),
                                  status |-> IF a.status = PyNone
                                             THEN Some(TicketStatus.OPEN)
                                             ELSE Some(a.status.value) ]),
                  method |-> "PUT",
                  path |-> "/tickets/{ticket_id}",
                  headers |-> self.headers,
                  files |-> None ], answer, TRUE)

update_ticket(self, a, answer) ==
  IF a.status # PyNone /\ ~HasValue(a.status) THEN NotSent(NoValue(a.status))
  ELSE IF a.priority # PyNone /\ ~HasValue(a.priority) THEN NotSent(NoValue(a.priority))
  ELSE Exchange([ ticket_id |-> Some(a.ticket_id),
                  json |-> Some([ priority |-> IF a.priority = PyNone THEN None
                                               ELSE Some(a.priority.value),
                                  status |-> IF a.status = PyNone THEN None
                                             ELSE Some(a.status.value) ]),
                  method |-> "PUT",
                  path |-> "/tickets/{ticket_id}",
                  headers |-> self.headers,
                  files |-> None ], answer, TRUE)

add_note(self, a, answer) ==
  Exchange([ ticket_id |-> Some(a.ticket_id),
             json |-> Some([body |-> a.body, private |-> a.is_private]),
             method |-> "POST",
             path |-> "/tickets/{ticket_id}/notes",
             headers |-> self.headers,
             files |-> None ], answer, FALSE)

\* a pop applied to self.headers itself instead of a copy of it
HeadersAfterUpload_aliased(self) == self.headers \ {"Content-Type"}

\* "headers = self.headers.copy(); headers.pop('Content-Type', None)": what
\* self.headers holds afterwards
HeadersAfterUpload(self) == self.headers

upload_attachment(self, a, answer) ==
  Exchange([ ticket_id |-> Some(a.ticket_id),
             json |-> None,
             method |-> "POST",
             path |-> "/tickets/{ticket_id}/attachments",
             headers |-> self.headers \ {"Content-Type"},
             files |-> Some([ data |-> [content |-> a.file_data.content, type |-> "bytes"],
                              name |-> a.file_name ]) ],
           answer, FALSE)

ClientOps == {"create_ticket", "get_ticket", "update_ticket", "add_note", "upload_attachment"}

Body(self, o, answer) ==
  CASE o.name = "create_ticket" -> create_ticket(self, o, answer)
    [] o.name = "get_ticket" -> get_ticket(self, o, answer)
    [] o.name = "update_ticket" -> update_ticket(self, o, answer)
    [] o.name = "add_note" -> add_note(self, o, answer)
    [] o.name = "upload_attachment" -> upload_attachment(self, o, answer)

\* the retry decorator every operation carries
MAX_ATTEMPT_NUMBER == 3

WAIT_MULTIPLIER == 1

WAIT_MIN == 4

WAIT_MAX == 10

\* a stop rule that lets one attempt too many through
stop_after_attempt_late(attempt_number) == attempt_number > MAX_ATTEMPT_NUMBER

stop_after_attempt(attempt_number) == attempt_number >= MAX_ATTEMPT_NUMBER

\* a backoff without the clamp
wait_exponential_unclamped(attempt_number) == WAIT_MULTIPLIER * 2 ^ (attempt_number - 1)

wait_exponential(attempt_number) ==
  LET result == WAIT_MULTIPLIER * 2 ^ (attempt_number - 1)
      capped == IF result < WAIT_MAX THEN result ELSE WAIT_MAX
      floor == IF WAIT_MIN > 0 THEN WAIT_MIN ELSE 0
  IN  IF capped > floor THEN capped ELSE floor

\* what the decorator raises when it gives up: it wraps the last attempt's exception
RetryError(last_attempt) ==
  [text |-> "RetryError", type |-> "RetryError", arg |-> <<>>, last_attempt |-> last_attempt]

NotYet == [kind |-> "none"]

\* the decorator's step after one pass a through the body: hand the result back, give
\* up, or sleep and go round again
retry(self, a) ==
  LET attempt_number == Len(self.attempts) + 1
      logged == [self EXCEPT !.attempts = Append(@, a)]
  IN  IF a.result.kind = "return"
      THEN [ret |-> a.result, client |-> [logged EXCEPT !.pc = "done"]]
      ELSE IF stop_after_attempt(attempt_number)
      THEN [ ret |-> Raise(RetryError(a.result.error)),
             client |-> [logged EXCEPT !.pc = "done"] ]
      ELSE [ ret |-> NotYet,
             client |-> [logged EXCEPT !.sleeps = Append(@, wait_exponential(attempt_number))] ]

\* ------------------------------------------- models.py: validation at construction
\* keyword arguments as the caller wrote them: an argument left out is None
ValidationError(model, fields) ==
  [text |-> model, type |-> "ValidationError", arg |-> fields]

\* a Literal that lets every string through
ActionOk_any(action) == TRUE

\* action: Literal["create", "update", "resolve", "escalate"]
ActionOk(action) == action \in {"create", "update", "resolve", "escalate"}

\* a priority field whose lower limit is 0
PriorityOk_from_zero(priority) ==
  priority = None \/ (priority[1] >= 0 /\ priority[1] <= 4)

\* priority: Optional[int] = Field(None, ge=1, le=4)
PriorityOk(priority) == priority = None \/ (priority[1] >= 1 /\ priority[1] <= 4)

\* action_type: Literal[...]
ActionTypeOk(action_type) ==
  action_type \in { "create_ticket", "update_ticket", "ask_question",
                    "provide_solution", "escalate", "verify_solution" }

\* a confidence field without its upper limit
ConfidenceOk_no_upper(confidence) == confidence # None /\ confidence[1] >= 0

\* confidence: float = Field(ge=0.0, le=1.0), in hundredths; the field is required
ConfidenceOk(confidence) ==
  confidence # None /\ confidence[1] >= 0 /\ confidence[1] <= 100

NewTicketAction(kw) ==
  LET errors == (IF ActionOk(kw.action) THEN {} ELSE {"action"})
                \cup (IF PriorityOk(kw.priority) THEN {} ELSE {"priority"})
                \cup (IF kw.reasoning # None THEN {} ELSE {"reasoning"})
  IN  IF errors = {}
      THEN Return([ action |-> kw.action, priority |-> kw.priority, status |-> kw.status,
                    subject |-> kw.subject, description |-> kw.description,
                    tags |-> <<"network">>, reasoning |-> kw.reasoning[1],
                    next_steps |-> <<>> ])
      ELSE Raise(ValidationError("TicketAction", errors))

NewAgentAction(kw) ==
  LET errors == (IF ActionTypeOk(kw.action_type) THEN {} ELSE {"action_type"})
                \cup (IF kw.reasoning # None THEN {} ELSE {"reasoning"})
                \cup (IF ConfidenceOk(kw.confidence) THEN {} ELSE {"confidence"})
  IN  IF errors = {}
      THEN Return([ reasoning |-> kw.reasoning[1],
                    action_type |-> kw.action_type,
                    parameters |-> <<>>,
                    confidence |-> kw.confidence[1] ])
      ELSE Raise(ValidationError("AgentAction", errors))

\* ticket_action and agent_action arrive as objects already constructed
NewITSupportResponse(kw) ==
  LET errors == (IF kw.understanding # None THEN {} ELSE {"understanding"})
                \cup (IF ConfidenceOk(kw.confidence) THEN {} ELSE {"confidence"})
  IN  IF errors = {}
      THEN Return([ confidence |-> kw.confidence[1],
                    understanding |-> kw.understanding[1],
                    solution |-> Some("Check network settings and restart router"),
                    needs_human_intervention |-> FALSE,
                    follow_up_questions |-> <<"Have you tried restarting your computer?">>,
                    ticket_action |-> kw.ticket_action,
                    agent_action |-> kw.agent_action ])
      ELSE Raise(ValidationError("ITSupportResponse", errors))

\* a router that honours output_schema builds the response from the fields the model
\* produced: the decision, the directive if there is one, then the response
Generate(raw) ==
  LET agent_action == NewAgentAction(raw.agent_action)
      ticket_action == IF raw.ticket_action = None
                       THEN Return(None)
                       ELSE NewTicketAction(raw.ticket_action[1])
  IN  IF agent_action.kind = "raise" THEN agent_action
      ELSE IF ticket_action.kind = "raise" THEN ticket_action
      ELSE NewITSupportResponse(
             [ confidence |-> raw.confidence,
               understanding |-> raw.understanding,
               ticket_action |-> IF raw.ticket_action = None THEN None
                                 ELSE Some(ticket_action.value),
               agent_action |-> agent_action.value ])

\* -------------------------------------------------------- llm_controller.py
\* a dict as the pairs it holds, in insertion order
Contains(d, name) == \E i \in DOMAIN d : d[i].name = name

GetItem(d, name) == d[CHOOSE i \in DOMAIN d : d[i].name = name].handler

SetItem(d, name, handler) ==
  IF Contains(d, name)
  THEN [ i \in DOMAIN d |->
           IF d[i].name = name THEN [name |-> name, handler |-> handler] ELSE d[i] ]
  ELSE Append(d, [name |-> name, handler |-> handler])

\* the truth value of an Optional[str]: false for None and for ""
TruthyStr(x) == x # None /\ x[1] # ""

LogLine(text, arg) == [text |-> text, arg |-> arg]

\* the object handler_class(**handler_args) creates for the i-th entry of the list
Instance(entry, i) == [cls |-> entry.handler, id |-> i]

\* the attributes __init__ sets before it reads the list
NewController == [handlers |-> <<>>, current_handler |-> None, default_handler |-> None]

\* a loop body that makes every backend that initializes the default
Register_last_default(c, entry, i) ==
  IF entry.raises = None
  THEN [ log |-> c.log,
         self |-> [c.self EXCEPT !.handlers = SetItem(@, entry.name, Instance(entry, i)),
                                 !.default_handler = Some(entry.name)] ]
  ELSE [ log |-> Append(c.log, LogLine("Failed to initialize handler",
                                       <<entry.name, entry.raises[1]>>)),
         self |-> c.self ]

\* the body of "for handler in handlers", on the i-th entry
Register(c, entry, i) ==
  IF entry.raises = None
  THEN [ log |-> c.log,
         self |-> [c.self EXCEPT !.handlers = SetItem(@, entry.name, Instance(entry, i)),
                                 !.default_handler = IF @ = None THEN Some(entry.name)
                                                     ELSE @] ]
  ELSE [ log |-> Append(c.log, LogLine("Failed to initialize handler",
                                       <<entry.name, entry.raises[1]>>)),
         self |-> c.self ]

RECURSIVE RegisterAll(_, _, _)
RegisterAll(c, handlers, i) ==
  IF i > Len(handlers) THEN c
  ELSE RegisterAll(Register(c, handlers[i], i), handlers, i + 1)

\* LLMController(handlers): the object, if there is one, and the lines logged
LLMController(handlers, lg) ==
  LET c == RegisterAll([log |-> lg, self |-> NewController], handlers, 1) IN
  IF TruthyStr(c.self.default_handler)
  THEN [ ret |-> Return(None),
         log |-> c.log,
         self |-> Some([c.self EXCEPT !.current_handler =
                                        Some(GetItem(c.self.handlers,
                                                     c.self.default_handler[1]))]) ]
  ELSE [ ret |-> Raise(Error("ValueError", "No handlers were successfully initialized",
                             <<>>)),
         log |-> c.log,
         self |-> None ]

\* a switch that drops the active backend when it does not know the name
switch_handler_clearing(self, handler_name) ==
  IF Contains(self.handlers, handler_name)
  THEN [ ret |-> Return(TRUE),
         self |-> [self EXCEPT !.current_handler =
                                 Some(GetItem(self.handlers, handler_name))] ]
  ELSE [ret |-> Return(FALSE), self |-> [self EXCEPT !.current_handler = None]]

switch_handler(self, handler_name) ==
  IF Contains(self.handlers, handler_name)
  THEN [ ret |-> Return(TRUE),
         self |-> [self EXCEPT !.current_handler =
                                 Some(GetItem(self.handlers, handler_name))] ]
  ELSE [ret |-> Return(FALSE), self |-> self]

get_current_handler(self) == self.current_handler

\* the first name, in the dict's order, whose handler is the current one
get_handler_name(self) ==
  LET hits == { i \in DOMAIN self.handlers :
                  Some(self.handlers[i].handler) = self.current_handler }
  IN  IF hits = {} THEN None
      ELSE Some(self.handlers[CHOOSE i \in hits : \A j \in hits : i <= j].name)

\* temperature: float = 0.7, in hundredths
TEMPERATURE == 70

\* the module neither defines nor imports OpenAIChatModel
NAME_ERROR == Error("NameError", "name 'OpenAIChatModel' is not defined", <<>>)

\* what the chat model is asked: chat.bound says whether the name OpenAIChatModel
\* resolves when the call is made, chat.result what generate() then yields
ChatRequest(self, messages, output_schema) ==
  [ messages |-> messages,
    output_schema |-> output_schema,
    model |-> self.current_handler[1],
    temperature |-> TEMPERATURE ]

GENERATION_ERROR_TEXT == "Error generating structured content"

\* a router that stops asking the chat model once a generation has failed
generate_with_schema_cooling(self, messages, output_schema, chat, lg) ==
  IF ~IsSet(self.current_handler)
  THEN [ ret |-> Raise(Error("ValueError", "No handler is currently set", <<>>)),
         log |-> lg,
         requests |-> <<>> ]
  ELSE LET tripped == \E i \in DOMAIN lg : lg[i].text = GENERATION_ERROR_TEXT
           requests == IF chat.bound /\ ~tripped
                       THEN <<ChatRequest(self, messages, output_schema)>> ELSE <<>>
           result == IF tripped THEN Raise(Error("Exception", "backend disabled", <<>>))
                     ELSE IF chat.bound THEN chat.result ELSE Raise(NAME_ERROR)
       IN  IF result.kind = "return"
           THEN [ret |-> result, log |-> lg, requests |-> requests]
           ELSE [ ret |-> result,
                  log |-> Append(lg, LogLine(GENERATION_ERROR_TEXT,
                                             <<result.error.text>>)),
                  requests |-> requests ]

generate_with_schema(self, messages, output_schema, chat, lg) ==
  IF ~IsSet(self.current_handler)
  THEN [ ret |-> Raise(Error("ValueError", "No handler is currently set", <<>>)),
         log |-> lg,
         requests |-> <<>> ]
  ELSE LET requests == IF chat.bound
                       THEN <<ChatRequest(self, messages, output_schema)>> ELSE <<>>
           result == IF chat.bound THEN chat.result ELSE Raise(NAME_ERROR)
       IN  IF result.kind = "return"
           THEN [ret |-> result, log |-> lg, requests |-> requests]
           ELSE [ ret |-> result,
                  log |-> Append(lg, LogLine(GENERATION_ERROR_TEXT,
                                             <<result.error.text>>)),
                  requests |-> requests ]

\* ---------------------------------------------------------- the state machine
Init ==
  /\ heap = <<>>
  /\ contexts = <<>>
  /\ now = 0
  /\ op = [name |-> "__init__"]
  /\ ret = [kind |-> "none"]
  /\ events = <<>>
  /\ calls = <<>>
  /\ llm_calls = <<>>
  /\ says = <<>>
  /\ client = [ headers |-> {"Authorization", "Content-Type"},
                attempts |-> <<>>,
                pc |-> "idle",
                sleeps |-> <<>> ]
  /\ router = None
  /\ log = <<>>
  /\ tasks = <<>>

\* what an invocation on the agent leaves behind
CommitAgent(m) ==
  /\ heap' = m.heap
  /\ contexts' = m.contexts
  /\ events' = m.events
  /\ calls' = m.calls
  /\ llm_calls' = m.llm_calls
  /\ says' = m.says
  /\ client' = client
  /\ tasks' = tasks

\* an invocation on an agent whose router is a stand-in, as in the tests
Commit(m) ==
  /\ CommitAgent(m)
  /\ router' = router
  /\ log' = log

\* the conversation ids a caller can supply: none, one it was handed, or a foreign one
ConversationArgs ==
  {None, Some(ForeignUuid)} \cup { Some(heap[r].conversation_id) : r \in DOMAIN heap }

\* the ticketing client answers only when it is called
MakesCall(action, context) == CreateGuard(action, context) \/ UpdateGuard(action, context)

NoAnswer == [ok |-> FALSE, error |-> "not called"]

AnswersTo(action, context) == IF MakesCall(action, context) THEN FdOutcomes ELSE {NoAnswer}

AnswersFor(llm, context) ==
  IF llm.ok /\ IsSet(llm.response.ticket_action)
  THEN AnswersTo(llm.response.ticket_action[1], context)
  ELSE {NoAnswer}

\* the clock advances between invocations
Tick ==
  /\ now < MaxTime
  /\ now' = now + 1
  /\ UNCHANGED <<heap, contexts, op, ret, events, calls, llm_calls, says, client, router, log, tasks>>

GetOrCreateContext ==
  \E s \in Surfaces, conversation_id \in ConversationArgs :
    LET m == Fresh(Machine)
        g == get_or_create_context(m, s.user_id, s.channel_id, s.thread_ts,
                                   conversation_id, now)
    IN  /\ KnownConversation(m, conversation_id) \/ Len(heap) < MaxCtx
        /\ Commit(g.m)
        /\ op' = [ user_id |-> s.user_id,
                   channel_id |-> s.channel_id,
                   thread_ts |-> s.thread_ts,
                   conversation_id |-> conversation_id,
                   name |-> "get_or_create_context" ]
        /\ ret' = Return(g.ret)
        /\ UNCHANGED now

ProcessMessage ==
  \E message \in Messages, ref \in DOMAIN heap, llm \in LlmOutcomes :
    \E fd \in AnswersFor(llm, heap[ref]) :
      LET p == process_message(Fresh(Machine), message, ref, llm, fd, now)
      IN  /\ Commit(p.m)
          /\ op' = [context |-> ref, message |-> message, name |-> "process_message"]
          /\ ret' = p.ret
          /\ UNCHANGED now

HandleTicketAction ==
  \E ref \in DOMAIN heap, action \in Directives :
    \E fd \in AnswersTo(action, heap[ref]) :
      LET h == _handle_ticket_action(Fresh(Machine), ref, action, fd, now)
      IN  /\ Commit(h.m)
          /\ op' = [action |-> action, context |-> ref, name |-> "_handle_ticket_action"]
          /\ ret' = IF h.raised THEN Raise(h.error) ELSE Return(None)
          /\ UNCHANGED now

\* the context handle_message works on is the one it has just created: no ticket yet
HandleMessage ==
  /\ Len(heap) < MaxCtx
  /\ \E event \in SlackEvents, llm \in LlmOutcomes :
       \E fd \in AnswersFor(llm, [ticket_id |-> None]) :
         LET r == handle_message(Fresh(Machine), event, llm, fd, now)
         IN  /\ Commit(r.m)
             /\ op' = [context |-> r.context, event |-> event, name |-> "handle_message"]
             /\ ret' = Return(None)
             /\ UNCHANGED now

Next ==
  \/ GetOrCreateContext
  \/ ProcessMessage
  \/ HandleTicketAction
  \/ HandleMessage

\* the engine with the clock standing still
Spec == Init /\ [][Next]_vars

\* the engine with the clock advancing between invocations
NextClock == Tick \/ Next

SpecClock == Init /\ [][NextClock]_vars

\* ------------------------------------------------- the ticketing client alone
ClientTicketIds == {1, 2}

StatusArgs == {Member("TicketStatus", TicketStatus.PENDING), PyInt(3), PyNone}

PriorityArgs == {Member("TicketPriority", TicketPriority.HIGH), PyNone}

\* an operation is invoked: the decorator starts its loop
Invoke(o) ==
  /\ client.pc # "running"
  /\ op' = o
  /\ ret' = NotYet
  /\ client' = [client EXCEPT !.pc = "running", !.attempts = <<>>, !.sleeps = <<>>]
  /\ UNCHANGED <<heap, contexts, now, events, calls, llm_calls, says, router, log, tasks>>

CreateTicket ==
  \E status \in StatusArgs \cup {Member("TicketStatus", TicketStatus.OPEN)} :
    \E priority \in {Member("TicketPriority", TicketPriority.MEDIUM)} \cup
                     IF HasValue(status) THEN {} ELSE {PyNone} :
      Invoke([ priority |-> priority,
               status |-> status,
               subject |-> "Test Ticket",
               description |-> "Test Description",
               tags |-> Some(<<"test">>),
               email |-> "test@example.com",
               name |-> "create_ticket" ])

GetTicket ==
  \E ticket_id \in ClientTicketIds :
    Invoke([ticket_id |-> ticket_id, name |-> "get_ticket"])

UpdateTicket ==
  \E ticket_id \in ClientTicketIds, status \in StatusArgs, priority \in PriorityArgs :
    Invoke([ priority |-> priority,
             status |-> status,
             ticket_id |-> ticket_id,
             name |-> "update_ticket" ])

AddNote ==
  \E ticket_id \in ClientTicketIds, is_private \in BOOLEAN :
    Invoke([ ticket_id |-> ticket_id,
             body |-> "Test note",
             is_private |-> is_private,
             name |-> "add_note" ])

UploadAttachment ==
  \E ticket_id \in ClientTicketIds, type \in {"str", "bytes"} :
    Invoke([ ticket_id |-> ticket_id,
             file_data |-> [content |-> "test content", type |-> type],
             name |-> "upload_attachment",
             file_name |-> "test.txt" ])

\* one attempt of the invocation in progress, and the decorator's step after it
Attempt ==
  /\ client.pc = "running"
  /\ \E answer \in Answers :
       LET r == retry(client, Body(client, op, answer)) IN
       /\ client' = IF op.name = "upload_attachment"
                    THEN [r.client EXCEPT !.headers = HeadersAfterUpload(client)]
                    ELSE r.client
       /\ ret' = r.ret
  /\ UNCHANGED <<heap, contexts, now, op, events, calls, llm_calls, says, router, log, tasks>>

NextClient ==
  \/ CreateTicket
  \/ GetTicket
  \/ UpdateTicket
  \/ AddNote
  \/ UploadAttachment
  \/ Attempt

SpecClient == Init /\ [][NextClient]_vars

\* response validation alone, on every status code and body
ValidateResponse ==
  \E status_code \in StatusCodes, body \in Bodies :
    LET response == Response(status_code, body) IN
    /\ op' = [response |-> response, name |-> "_validate_response"]
    /\ ret' = _validate_response(response)
    /\ UNCHANGED <<heap, contexts, now, events, calls, llm_calls, says, client, router, log, tasks>>

SpecValidate == Init /\ [][ValidateResponse]_vars

\* ---------------------------------------------- the models and a turn built on them
ConfidenceInputs == {None, Some(-10), Some(0), Some(92), Some(100), Some(101), Some(150)}

PriorityInputs == {None, Some(0), Some(1), Some(2), Some(4), Some(5)}

ReasoningInputs == {None, Some(""), Some("Creating ticket for network issue")}

SubjectInputs == {None, Some("Network issue")}

DescriptionInputs == {None, Some("no internet")}

TicketActionInputs ==
  { [ action |-> a, priority |-> p, status |-> Some(2),
      subject |-> Some("Network issue"), description |-> Some("no internet"),
      reasoning |-> r ] :
      a \in {"create", "update", "resolve", "escalate", "invalid_action"},
      p \in PriorityInputs, r \in ReasoningInputs }
  \cup { [ action |-> a, priority |-> None, status |-> Some(2), subject |-> s,
           description |-> d, reasoning |-> Some("Creating ticket for network issue") ] :
           a \in {"create", "update"}, s \in SubjectInputs, d \in DescriptionInputs }

AgentActionInputs ==
  { [reasoning |-> r, action_type |-> t, confidence |-> c] :
      t \in {"create_ticket", "ask_question", "invalid_action"},
      r \in {None, Some("Creating ticket for network issue")},
      c \in ConfidenceInputs }

ITSupportResponseInputs ==
  { [confidence |-> c, understanding |-> u, ticket_action |-> ta, agent_action |-> aa] :
      u \in {None, Some("User is having network connectivity issues")},
      c \in ConfidenceInputs,
      ta \in {None, Some(TicketAction("create", Some(2), Some(1)))},
      aa \in {AgentAction("create_ticket")} }

\* the fields a model can hand the router for one turn
Generated ==
  { [confidence |-> c,
     understanding |-> Some("User is having network connectivity issues"),
     ticket_action |-> ta,
     agent_action |-> aa] :
      c \in {Some(95), Some(150)},
      ta \in {None} \cup
             { Some(kw) : kw \in { x \in TicketActionInputs :
                                     /\ x.action \in {"create", "update", "invalid_action"}
                                     /\ x.priority \in {None, Some(0), Some(4), Some(5)}
                                     /\ x.reasoning # None } },
      aa \in { x \in AgentActionInputs : x.reasoning # None
                                          /\ x.confidence \in {Some(92), Some(101)}
                                          /\ x.action_type # "ask_question" } }

\* the agent after its first get_or_create_context
InitSchema ==
  LET m == [ heap |-> <<>>, contexts |-> <<>>, events |-> <<>>, calls |-> <<>>,
             llm_calls |-> <<>>, says |-> <<>> ]
      g == get_or_create_context(m, "U1", "C1", Some("T1"), None, 0)
  IN  /\ heap = g.m.heap
      /\ contexts = g.m.contexts
      /\ now = 0
      /\ op = [ user_id |-> "U1",
                channel_id |-> "C1",
                thread_ts |-> Some("T1"),
                conversation_id |-> None,
                name |-> "get_or_create_context" ]
      /\ ret = Return(g.ret)
      /\ events = g.m.events
      /\ calls = <<>>
      /\ llm_calls = <<>>
      /\ says = <<>>
      /\ client = [ headers |-> {"Authorization", "Content-Type"},
                    attempts |-> <<>>,
                    pc |-> "idle",
                    sleeps |-> <<>> ]
      /\ router = None
      /\ log = <<>>
      /\ tasks = <<>>

\* a constructor call: it touches nothing but its own result
Construct(model, kw, result) ==
  /\ Commit(Fresh(Machine))
  /\ op' = [name |-> model, kwargs |-> kw]
  /\ ret' = result
  /\ UNCHANGED now

ConstructTicketAction ==
  \E kw \in TicketActionInputs : Construct("TicketAction", kw, NewTicketAction(kw))

ConstructAgentAction ==
  \E kw \in AgentActionInputs : Construct("AgentAction", kw, NewAgentAction(kw))

ConstructITSupportResponse ==
  \E kw \in ITSupportResponseInputs :
    Construct("ITSupportResponse", kw, NewITSupportResponse(kw))

\* process_message with a router that builds its response from generated fields
ProcessGenerated ==
  \E message \in Messages, ref \in DOMAIN heap, raw \in Generated :
    LET built == Generate(raw)
        llm == IF built.kind = "return"
               THEN [ok |-> TRUE, response |-> built.value]
               ELSE [ok |-> FALSE, error |-> "validation error"]
    IN  \E fd \in AnswersFor(llm, heap[ref]) :
          LET p == process_message(Fresh(Machine), message, ref, llm, fd, now)
          IN  /\ Commit(p.m)
              /\ op' = [ context |-> ref,
                         message |-> message,
                         name |-> "process_message",
                         generated |-> raw ]
              /\ ret' = p.ret
              /\ UNCHANGED now

NextSchema ==
  \/ ConstructTicketAction
  \/ ConstructAgentAction
  \/ ConstructITSupportResponse
  \/ ProcessGenerated

SpecSchema == InitSchema /\ [][NextSchema]_vars

\* ------------------------------------------- the router and a turn through it
HandlerNames == <<"Ollama", "OpenAI", "Gemini">>

HandlerClass == [Ollama |-> "OllamaHandler", OpenAI |-> "OpenAIHandler",
                 Gemini |-> "GeminiHandler"]

\* a configuration list: each name is left out, constructs, or raises at construction
ConfigOf(f) ==
  LET listed == SelectSeq(<<1, 2, 3>>, LAMBDA i : f[i] # "absent") IN
  [ j \in 1..Len(listed) |->
      [ name |-> HandlerNames[listed[j]],
        handler |-> HandlerClass[HandlerNames[listed[j]]],
        raises |-> IF f[listed[j]] = "raises" THEN Some("connection refused")
                   ELSE None ] ]

Configs == { ConfigOf(f) : f \in [1..3 -> {"absent", "constructs", "raises"}] }

RouterResponses ==
  { ITSupportResponse(None, "provide_solution", FALSE),
    ITSupportResponse(Some(TicketAction("create", None, None)), "create_ticket", FALSE) }

ChatOutcomes ==
  { [result |-> NotYet, bound |-> FALSE],
    [result |-> Raise(Error("Exception", "backend unavailable", <<>>)), bound |-> TRUE] }
  \cup { [result |-> Return(r), bound |-> TRUE] : r \in RouterResponses }

\* what the caller of generate_with_schema gets, with the requests the call made
Outcome(g) ==
  IF g.ret.kind = "return"
  THEN [ok |-> TRUE, response |-> g.ret.value, requests |-> g.requests]
  ELSE [ ok |-> FALSE,
         error |-> g.ret.error.text,
         type |-> g.ret.error.type,
         requests |-> g.requests ]

\* the router is constructed once, at startup
NewLLMController ==
  /\ router = None
  /\ op.name # "LLMController"
  /\ \E handlers \in Configs :
       LET c == LLMController(handlers, log) IN
       /\ router' = c.self
       /\ log' = c.log
       /\ op' = [name |-> "LLMController", handlers |-> handlers]
       /\ ret' = c.ret
  /\ CommitAgent(Fresh(Machine))
  /\ UNCHANGED now

SwitchHandler ==
  /\ router # None
  /\ \E handler_name \in {HandlerNames[i] : i \in DOMAIN HandlerNames} \cup {"unknown"} :
       LET r == switch_handler(router[1], handler_name) IN
       /\ router' = Some(r.self)
       /\ op' = [name |-> "switch_handler", handler_name |-> handler_name]
       /\ ret' = r.ret
  /\ CommitAgent(Fresh(Machine))
  /\ UNCHANGED <<now, log>>

GetHandlerName ==
  /\ router # None
  /\ op' = [name |-> "get_handler_name"]
  /\ ret' = Return(get_handler_name(router[1]))
  /\ CommitAgent(Fresh(Machine))
  /\ UNCHANGED <<now, router, log>>

GenerateWithSchema ==
  /\ router # None
  /\ \E message \in Messages, chat \in ChatOutcomes :
       LET g == generate_with_schema(router[1], ChatMessages(message),
                                     "ITSupportResponse", chat, log)
       IN  /\ Len(g.log) <= MaxLog
           /\ CommitAgent([Fresh(Machine) EXCEPT !.llm_calls =
                             << [ outcome |-> Outcome(g),
                                  messages |-> ChatMessages(message),
                                  output_schema |-> "ITSupportResponse" ] >>])
           /\ log' = g.log
           /\ op' = [ messages |-> ChatMessages(message),
                      output_schema |-> "ITSupportResponse",
                      name |-> "generate_with_schema",
                      chat |-> chat ]
           /\ ret' = g.ret
  /\ UNCHANGED <<now, router>>

\* process_message on an agent that holds the router
ProcessViaRouter ==
  /\ router # None
  /\ \E message \in Messages, ref \in DOMAIN heap, chat \in ChatOutcomes :
       LET g == generate_with_schema(router[1], ChatMessages(message),
                                     "ITSupportResponse", chat, log)
           llm == Outcome(g)
       IN  /\ Len(g.log) <= MaxLog
           /\ \E fd \in AnswersFor(llm, heap[ref]) :
                LET p == process_message(Fresh(Machine), message, ref, llm, fd, now)
                IN  /\ CommitAgent(p.m)
                    /\ op' = [ context |-> ref,
                               message |-> message,
                               name |-> "process_message",
                               chat |-> chat ]
                    /\ ret' = p.ret
           /\ log' = g.log
  /\ UNCHANGED <<now, router>>

NextRouter ==
  \/ NewLLMController
  \/ SwitchHandler
  \/ GetHandlerName
  \/ GenerateWithSchema
  \/ ProcessViaRouter

SpecRouter == InitSchema /\ [][NextRouter]_vars

\* ------------------------------------- a ticket read from the wire and written back
WireStatuses == 0..6

WirePriorities == 0..5

\* a ticket object carrying the given status and priority
TicketJsonOf(id, status, priority) ==
  [TicketJson(id, status, Some(42)) EXCEPT !.priority = Some(priority)]

FromApiResponse ==
  \E id \in ClientTicketIds, status \in WireStatuses, priority \in WirePriorities :
    LET data == TicketJsonOf(id, status, priority) IN
    /\ op' = [data |-> data, name |-> "from_api_response"]
    /\ ret' = from_api_response(data)
    /\ client' = [client EXCEPT !.attempts = <<>>, !.pc = "idle", !.sleeps = <<>>]
    /\ UNCHANGED <<heap, contexts, now, events, calls, llm_calls, says, router, log, tasks>>

\* update_ticket called with the status and priority of the record just read; the
\* backend answers with the ticket as it then stands
UpdateFromRecord ==
  /\ op.name = "from_api_response"
  /\ ret.kind = "return"
  /\ LET o == [ priority |-> ret.value.priority,
                status |-> ret.value.status,
                ticket_id |-> ret.value.ticket_id,
                name |-> "update_ticket" ]
         answer == Response(200, JsonBody("updated ticket", op.data))
         r == retry(client, update_ticket(client, o, answer))
     IN  /\ op' = o
         /\ ret' = r.ret
         /\ client' = r.client
  /\ UNCHANGED <<heap, contexts, now, events, calls, llm_calls, says, router, log, tasks>>

NextRoundTrip == FromApiResponse \/ UpdateFromRecord

SpecRoundTrip == Init /\ [][NextRoundTrip]_vars

\* ------------------------------------- the client called as the agent calls it
\* an Optional[int] of a directive, handed to the client as it is
PyArg(x) == IF x = None THEN PyNone ELSE PyInt(x[1])

\* "self.freshdesk.create_ticket(subject=action.subject, description=action.description,
\*  email='user@example.com', status=action.status, priority=action.priority,
\*  tags=action.tags)"
CreateFromDirective ==
  \E action \in { d \in Directives : d.action = "create" } :
    Invoke([ priority |-> PyArg(action.priority),
             status |-> PyArg(action.status),
             subject |-> action.subject,
             description |-> action.description,
             tags |-> Some(action.tags),
             email |-> REQUESTER_EMAIL,
             name |-> "create_ticket" ])

NextDirective == CreateTicket \/ CreateFromDirective \/ Attempt

\* create_ticket called by a caller of its own and by the agent
SpecDirective == Init /\ [][NextDirective]_vars

\* --------------------------------------------- turns interleaved by the event loop
\* A coroutine runs without interruption from one await to the next; the event loop
\* may resume any suspended coroutine in between.  get_or_create_context holds no
\* await and runs in one piece; process_message suspends at the router call and,
\* inside _handle_ticket_action, at the ticketing call.
ProcessTask(message, ref) ==
  [ response |-> None,
    context |-> ref,
    message |-> message,
    name |-> "process_message",
    pc |-> "start",
    call |-> None ]

ContextTask(s, conversation_id, ref) ==
  [ user_id |-> s.user_id,
    channel_id |-> s.channel_id,
    thread_ts |-> s.thread_ts,
    conversation_id |-> conversation_id,
    context |-> ref,
    name |-> "get_or_create_context",
    pc |-> "returned" ]

TasksNamed(ts, name) == { i \in DOMAIN ts : ts[i].name = name }

\* what the router answers to an interleaved turn
TaskLlmOutcomes ==
  { [ok |-> TRUE, response |-> ITSupportResponse(None, "provide_solution", FALSE)],
    [ok |-> TRUE,
     response |-> ITSupportResponse(Some(TicketAction("create", None, None)),
                                    "create_ticket", FALSE)],
    [ok |-> TRUE,
     response |-> ITSupportResponse(Some(TicketAction("update", Some(3), Some(2))),
                                    "update_ticket", FALSE)],
    [ok |-> FALSE, error |-> "Test error"] }

\* process_message from its first line to the await of the router call
process_message_enter(m, task, t) ==
  [ ret |-> NotYet,
    m |-> RefreshLastUpdated(m, task.context, t),
    task |-> [task EXCEPT !.pc = "await_llm"] ]

\* process_message resumed with the router's answer: it runs to the await of the
\* ticketing call when a branch of _handle_ticket_action is taken, else to its end
process_message_resume(m, task, llm, t) ==
  LET ref == task.context
      m1 == [m EXCEPT !.llm_calls = Append(@, [ outcome |-> llm,
                                                messages |-> ChatMessages(task.message),
                                                output_schema |-> "ITSupportResponse" ])]
  IN  IF ~llm.ok
      THEN LET e == ProcessingError(m1, ref, llm.error, t)
           IN  [ret |-> e.ret, m |-> e.m, task |-> [task EXCEPT !.pc = "raised"]]
      ELSE LET response == llm.response
               action == response.ticket_action
               suspended == [task EXCEPT !.pc = "await_freshdesk", !.response = Some(response)]
           IN  IF IsSet(action) /\ CreateGuard(action[1], m1.heap[ref])
               THEN [ ret |-> NotYet,
                      m |-> m1,
                      task |-> [suspended EXCEPT !.call = Some(CreateCall(action[1], NoAnswer))] ]
               ELSE IF IsSet(action) /\ UpdateGuard(action[1], m1.heap[ref])
               THEN [ ret |-> NotYet,
                      m |-> m1,
                      task |-> [suspended EXCEPT
                                  !.call = Some(UpdateCall(action[1], m1.heap[ref], NoAnswer))] ]
               ELSE [ ret |-> Return(response),
                      m |-> LogProcessed(m1, ref, response, t),
                      task |-> [task EXCEPT !.pc = "returned", !.response = Some(response)] ]

\* _handle_ticket_action resumed with the ticketing client's answer, and the rest of
\* process_message after it
_handle_ticket_action_resume(m, task, fd, t) ==
  LET ref == task.context
      call == [task.call[1] EXCEPT !.outcome = fd]
      response == task.response[1]
      m1 == [m EXCEPT !.calls = Append(@, call)]
  IN  IF ~fd.ok
      THEN LET h == TicketError(m1, ref, fd.error, t)
               e == ProcessingError(h.m, ref, h.error, t)
           IN  [ret |-> e.ret, m |-> e.m, task |-> [task EXCEPT !.pc = "raised"]]
      ELSE LET m2 == IF call.op = "create_ticket"
                     THEN _log_event([m1 EXCEPT !.heap[ref].ticket_id = Some(fd.ticket_id)],
                                     "ticket_created", ref, "create_ticket",
                                     Some([ticket_id |-> fd.ticket_id]), t)
                     ELSE _log_event(m1, "ticket_updated", ref, "update_ticket",
                                     Some([ticket_id |-> m1.heap[ref].ticket_id[1]]), t)
           IN  [ ret |-> Return(response),
                 m |-> LogProcessed(m2, ref, response, t),
                 task |-> [task EXCEPT !.pc = "returned"] ]

\* what a step of the event loop leaves behind
CommitTask(r, ts) ==
  /\ heap' = r.m.heap
  /\ contexts' = r.m.contexts
  /\ events' = r.m.events
  /\ calls' = r.m.calls
  /\ llm_calls' = r.m.llm_calls
  /\ says' = r.m.says
  /\ ret' = r.ret
  /\ tasks' = ts
  /\ UNCHANGED <<now, client, router, log>>

\* a get_or_create_context call, run to its end
RunContextTask ==
  \E s \in Surfaces, conversation_id \in ConversationArgs :
    LET g == get_or_create_context(Machine, s.user_id, s.channel_id, s.thread_ts,
                                   conversation_id, now)
    IN  /\ Cardinality(TasksNamed(tasks, "get_or_create_context")) < MaxCtx
        /\ KnownConversation(Machine, conversation_id) \/ Len(heap) < MaxCtx
        /\ CommitTask([ret |-> Return(g.ret), m |-> g.m],
                      Append(tasks, ContextTask(s, conversation_id, g.ret)))
        /\ op' = [name |-> "get_or_create_context", task |-> Len(tasks) + 1]

\* asyncio.create_task(agent.process_message(message, context))
ScheduleProcessTask ==
  \E message \in Messages, ref \in DOMAIN heap :
    /\ Cardinality(TasksNamed(tasks, "process_message")) < MaxTasks
    /\ tasks' = Append(tasks, ProcessTask(message, ref))
    /\ op' = [name |-> "create_task", task |-> Len(tasks) + 1]
    /\ UNCHANGED <<heap, contexts, now, ret, events, calls, llm_calls, says, client,
                   router, log>>

EnterProcessTask ==
  \E i \in DOMAIN tasks :
    /\ tasks[i].name = "process_message"
    /\ tasks[i].pc = "start"
    /\ LET r == process_message_enter(Machine, tasks[i], now)
       IN  CommitTask(r, [tasks EXCEPT ![i] = r.task])
    /\ op' = [name |-> "process_message", task |-> i]

RouterAnswersTask ==
  \E i \in DOMAIN tasks, llm \in TaskLlmOutcomes :
    /\ tasks[i].name = "process_message"
    /\ tasks[i].pc = "await_llm"
    /\ LET r == process_message_resume(Machine, tasks[i], llm, now)
       IN  CommitTask(r, [tasks EXCEPT ![i] = r.task])
    /\ op' = [name |-> "process_message", task |-> i]

TicketingAnswersTask ==
  \E i \in DOMAIN tasks, fd \in FdOutcomes :
    /\ tasks[i].name = "process_message"
    /\ tasks[i].pc = "await_freshdesk"
    /\ LET r == _handle_ticket_action_resume(Machine, tasks[i], fd, now)
       IN  CommitTask(r, [tasks EXCEPT ![i] = r.task])
    /\ op' = [name |-> "_handle_ticket_action", task |-> i]

NextTasks ==
  \/ RunContextTask
  \/ ScheduleProcessTask
  \/ EnterProcessTask
  \/ RouterAnswersTask
  \/ TicketingAnswersTask

\* the engine under an event loop that interleaves its coroutines
SpecTasks == Init /\ [][NextTasks]_vars

\* ------------------------------------------------------------------ claims
\* what the claims observe of one invocation (primed: of the invocation a step makes)
EventTypes(es) == { es[i].event_type : i \in DOMAIN es }

CallOps(cs) == { cs[i].op : i \in DOMAIN cs }

\* the step is a ticket directive d applied to context r, directly or through process
Applies(r, d) ==
  \/ /\ op'.name = "_handle_ticket_action"
     /\ op'.context = r
     /\ op'.action = d
  \/ /\ op'.name = "process_message"
     /\ op'.context = r
     /\ llm_calls'[1].outcome.ok
     /\ llm_calls'[1].outcome.response.ticket_action = Some(d)

\* C1: on a context whose ticket_id is set (whatever the id), a create directive,
\* applied directly or through process, makes no create call and leaves ticket_id as
\* it was.
C1_NoSecondCreate ==
  [][ \A r \in DOMAIN heap : \A d \in Directives :
        IsSet(heap[r].ticket_id) /\ d.action = "create" /\ Applies(r, d)
        => /\ "create_ticket" \notin CallOps(calls')
           /\ heap'[r].ticket_id = heap[r].ticket_id ]_vars

\* C2: a context's ticket_id, once it holds a value, is never cleared and never
\* replaced by another value.
C2_TicketIdMonotonic ==
  [][ \A r \in DOMAIN heap :
        IsSet(heap[r].ticket_id) => heap'[r].ticket_id = heap[r].ticket_id ]_vars

\* C3: get_or_create_context with a registered conversation_id returns the registered
\* object itself, changes no context and no store entry, and emits no event.
C3_KnownContextReturned ==
  [][ /\ op'.name = "get_or_create_context"
      /\ IsSet(op'.conversation_id)
      /\ op'.conversation_id[1] \in DOMAIN contexts
      => /\ ret' = Return(contexts[op'.conversation_id[1]])
         /\ heap' = heap
         /\ contexts' = contexts
         /\ events' = <<>> ]_vars

\* C3 witness: a registered context was fetched with arguments that differ from the
\* stored user, channel and thread.
C3_Witness ==
  /\ op.name = "get_or_create_context"
  /\ IsSet(op.conversation_id)
  /\ op.conversation_id[1] \in DOMAIN contexts
  /\ events = <<>>
  /\ ret = Return(contexts[op.conversation_id[1]])
  /\ heap[ret.value].user_id # op.user_id
  /\ heap[ret.value].channel_id # op.channel_id
  /\ heap[ret.value].thread_ts # op.thread_ts

StoreKeyedById(h, c) ==
  /\ \A k \in DOMAIN c : c[k] \in DOMAIN h /\ h[c[k]].conversation_id = k
  /\ \A k1, k2 \in DOMAIN c : k1 # k2 => c[k1] # c[k2]
  /\ \A r1, r2 \in DOMAIN h : r1 # r2 => h[r1].conversation_id # h[r2].conversation_id

\* C4: every registered context sits under the key equal to its own conversation_id,
\* no two contexts share a conversation_id, and no step removes or replaces an entry.
C4_StoreInvariant ==
  [][ /\ StoreKeyedById(heap', contexts')
      /\ \A k \in DOMAIN contexts : k \in DOMAIN contexts' /\ contexts'[k] = contexts[k]
      /\ \A r \in DOMAIN heap :
           r \in DOMAIN heap' /\ heap'[r].conversation_id = heap[r].conversation_id ]_vars

\* C4 witness: two contexts are registered, and a later invocation has worked on one.
C4_Witness ==
  /\ Cardinality(DOMAIN contexts) = 2
  /\ op.name = "process_message"
  /\ StoreKeyedById(heap, contexts)

\* C5: get_or_create_context without a conversation_id, or with an unregistered one,
\* registers exactly one new context under a fresh id (not the supplied one), with the
\* supplied user, channel and thread, state initial, no ticket and empty info; it
\* emits one context_created event and leaves the earlier contexts untouched.
C5_NewContextRegistered ==
  [][ /\ op'.name = "get_or_create_context"
      /\ ~(IsSet(op'.conversation_id) /\ op'.conversation_id[1] \in DOMAIN contexts)
      => LET new == ret'.value
             id == heap'[new].conversation_id
         IN  /\ ret'.kind = "return"
             /\ Len(heap') = Len(heap) + 1
             /\ new = Len(heap')
             /\ id \notin DOMAIN contexts
             /\ DOMAIN contexts' = DOMAIN contexts \cup {id}
             /\ contexts'[id] = new
             /\ IsSet(op'.conversation_id) => id # op'.conversation_id[1]
             /\ heap'[new] =
                  [ user_id |-> op'.user_id,
                    channel_id |-> op'.channel_id,
                    thread_ts |-> op'.thread_ts,
                    ticket_id |-> None,
                    conversation_id |-> id,
                    current_state |-> "initial",
                    last_updated |-> heap'[new].last_updated,
                    category |-> None,
                    urgency |-> None,
                    summary |-> None,
                    gathered_info |-> <<>>,
                    missing_info |-> <<>> ]
             /\ Len(events') = 1
             /\ events'[1].event_type = "context_created"
             /\ events'[1].conversation_id = id
             /\ \A r \in DOMAIN heap : heap'[r] = heap[r]
             /\ \A k \in DOMAIN contexts : contexts'[k] = contexts[k] ]_vars

\* C5 witness: a second context was registered by a call that supplied an unregistered
\* conversation_id, next to an earlier context that holds a ticket.
C5_Witness ==
  /\ op.name = "get_or_create_context"
  /\ op.conversation_id = Some(ForeignUuid)
  /\ Len(events) = 1
  /\ Len(heap) = 2
  /\ ret = Return(2)
  /\ IsSet(heap[1].ticket_id)

\* the step is process_message on context r and the router returned response
Processes(r, response) ==
  /\ op'.name = "process_message"
  /\ op'.context = r
  /\ llm_calls'[1].outcome = [ok |-> TRUE, response |-> response]

\* event type a comes before event type b in the sequence es
Precedes(es, a, b) ==
  \E i, j \in DOMAIN es : i < j /\ es[i].event_type = a /\ es[j].event_type = b

\* C6: a later chat message of the same conversation (same channel and thread) is
\* processed on the context created for the earlier message, and no new context is
\* created for it.
C6_ConversationReusesContext ==
  [][ /\ op.name = "handle_message"
      /\ op'.name = "handle_message"
      /\ op'.event.channel = op.event.channel
      /\ ThreadOf(op'.event) = ThreadOf(op.event)
      /\ op'.event.ts # op.event.ts
      => /\ op'.context = op.context
         /\ Len(heap') = Len(heap) ]_vars

\* C7: process with a create directive on a context without ticket_id makes exactly one
\* create call with the directive's subject, description, status, priority and tags
\* and the placeholder requester; when the call succeeds, ticket_id is the returned id
\* and ticket_created is emitted before message_processed.
C7_CreateOnce ==
  [][ \A r \in DOMAIN heap : \A response \in Responses :
        /\ Processes(r, response)
        /\ IsSet(response.ticket_action)
        /\ response.ticket_action[1].action = "create"
        /\ heap[r].ticket_id = None
        => LET d == response.ticket_action[1] IN
           /\ Len(calls') = 1
           /\ calls'[1] = [ priority |-> d.priority,
                            status |-> d.status,
                            subject |-> d.subject,
                            description |-> d.description,
                            tags |-> d.tags,
                            op |-> "create_ticket",
                            email |-> REQUESTER_EMAIL,
                            outcome |-> calls'[1].outcome ]
           /\ calls'[1].outcome.ok
              => /\ heap'[r].ticket_id = Some(calls'[1].outcome.ticket_id)
                 /\ Precedes(events', "ticket_created", "message_processed")
                 /\ ret' = Return(response) ]_vars

\* C7 witness: a turn created a ticket with a status and a priority that differ, and
\* the context now holds the returned id.
C7_Witness ==
  /\ op.name = "process_message"
  /\ Len(calls) = 1
  /\ calls[1].op = "create_ticket"
  /\ calls[1].outcome.ok
  /\ calls[1].status = Some(2)
  /\ calls[1].priority = Some(1)
  /\ heap[op.context].ticket_id = Some(calls[1].outcome.ticket_id)
  /\ Precedes(events, "ticket_created", "message_processed")

\* C8: an update directive on a context that has a ticket_id makes exactly one update
\* call for that id with the directive's status and priority and no create call,
\* leaves ticket_id unchanged and, the call succeeding, emits ticket_updated.
C8_UpdateOnce ==
  [][ \A r \in DOMAIN heap : \A d \in Directives :
        IsSet(heap[r].ticket_id) /\ d.action = "update" /\ Applies(r, d)
        => /\ Len(calls') = 1
           /\ calls'[1] = [ priority |-> d.priority,
                            status |-> d.status,
                            ticket_id |-> heap[r].ticket_id[1],
                            op |-> "update_ticket",
                            outcome |-> calls'[1].outcome ]
           /\ heap'[r].ticket_id = heap[r].ticket_id
           /\ calls'[1].outcome.ok => "ticket_updated" \in EventTypes(events') ]_vars

\* C9: when the response carries no ticket directive, process calls no ticketing
\* operation, leaves ticket_id as it was, emits no ticket event and returns the very
\* response the router produced.
C9_NoDirectiveNoTicketing ==
  [][ \A r \in DOMAIN heap : \A response \in Responses :
        Processes(r, response) /\ response.ticket_action = None
        => /\ calls' = <<>>
           /\ heap'[r].ticket_id = heap[r].ticket_id
           /\ EventTypes(events') = {"message_processed"}
           /\ ret' = Return(response) ]_vars

\* C9 witness: a turn without directive returned the router's response on a context
\* that has no ticket.
C9_Witness ==
  /\ op.name = "process_message"
  /\ ret.kind = "return"
  /\ ret.value.ticket_action = None
  /\ ret.value = llm_calls[1].outcome.response
  /\ calls = <<>>
  /\ heap[op.context].ticket_id = None

\* C10: when the ticketing call of a turn fails, a ticket_error event carrying the
\* error text is emitted, the failure is raised to the caller, ticket_id keeps its
\* value and the turn emits neither ticket_created nor ticket_updated.
C10_TicketFailureRaised ==
  [][ \A r \in DOMAIN heap :
        /\ op'.name \in {"process_message", "_handle_ticket_action"}
        /\ op'.context = r
        /\ calls' # <<>>
        /\ ~calls'[1].outcome.ok
        => /\ \E i \in DOMAIN events' :
                /\ events'[i].event_type = "ticket_error"
                /\ events'[i].details = Some([error |-> calls'[1].outcome.error])
           /\ ret' = Raise(calls'[1].outcome.error)
           /\ heap'[r].ticket_id = heap[r].ticket_id
           /\ "ticket_created" \notin EventTypes(events')
           /\ "ticket_updated" \notin EventTypes(events') ]_vars

\* C10 witness: a turn's create call failed and the turn raised, on a context that
\* still has no ticket.
C10_Witness ==
  /\ op.name = "process_message"
  /\ Len(calls) = 1
  /\ calls[1].op = "create_ticket"
  /\ ~calls[1].outcome.ok
  /\ ret = Raise(calls[1].outcome.error)
  /\ "ticket_error" \in EventTypes(events)
  /\ heap[op.context].ticket_id = None

\* C12: when the router's structured generation raises, process emits a
\* processing_error event carrying the error text, raises that error to its caller,
\* calls no ticketing operation, emits no message_processed event and leaves
\* ticket_id as it was.
C12_RouterFailureRaised ==
  [][ \A r \in DOMAIN heap :
        /\ op'.name = "process_message"
        /\ op'.context = r
        /\ ~llm_calls'[1].outcome.ok
        => LET error == llm_calls'[1].outcome.error IN
           /\ \E i \in DOMAIN events' :
                /\ events'[i].event_type = "processing_error"
                /\ events'[i].details = Some([error |-> error])
           /\ ret' = Raise(error)
           /\ calls' = <<>>
           /\ "message_processed" \notin EventTypes(events')
           /\ heap'[r].ticket_id = heap[r].ticket_id ]_vars

\* C12 witness: the router raised during a turn on a context that holds a ticket; the
\* turn raised the router's error and made no ticketing call.
C12_Witness ==
  /\ op.name = "process_message"
  /\ Len(llm_calls) = 1
  /\ ~llm_calls[1].outcome.ok
  /\ ret = Raise(llm_calls[1].outcome.error)
  /\ EventTypes(events) = {"processing_error"}
  /\ calls = <<>>
  /\ IsSet(heap[op.context].ticket_id)

ErrorEvents(es) ==
  { i \in DOMAIN es : es[i].event_type \in {"ticket_error", "processing_error"} }

\* C13: a process invocation that fails emits exactly one error event before it
\* raises: a ticket_error when the ticketing call failed, a processing_error when the
\* router failed.
C13_OneErrorEvent ==
  [][ /\ op'.name = "process_message"
      /\ ret'.kind = "raise"
      => /\ Cardinality(ErrorEvents(events')) = 1
         /\ \A i \in ErrorEvents(events') :
              events'[i].event_type =
                IF calls' # <<>> /\ ~calls'[Len(calls')].outcome.ok
                THEN "ticket_error" ELSE "processing_error" ]_vars

\* every attempt of the invocation so far was answered with the status code
AllAnswered(status_code) ==
  \A i \in DOMAIN client.attempts :
    /\ client.attempts[i].answer # None
    /\ client.attempts[i].answer[1].kind = "response"
    /\ client.attempts[i].answer[1].status_code = status_code

\* C11: when the backend answers 429 on all three attempts of an operation, the error
\* the operation raises to its caller is the rate-limit error, an API error of the
\* client's own family.
C11_RateLimitSurfaces ==
  client.pc = "done" /\ Len(client.attempts) = 3 /\ AllAnswered(429)
  => /\ ret.kind = "raise"
     /\ ret.error.type = "FreshdeskAPIError"
     /\ ret.error.text = "Rate limit exceeded"

Failed(a) == a.result.kind = "raise"

\* C14: an invocation of a client operation makes at most three attempts; it goes on
\* after a failed attempt of any kind while fewer than three were made, makes no
\* attempt after a successful one, and ends by returning that attempt's result or by
\* raising after the third failure.
C14_AtMostThreeAttempts ==
  LET n == Len(client.attempts) IN
  /\ n <= 3
  /\ \A i \in 1..(n - 1) : Failed(client.attempts[i])
  /\ client.pc = "running"
     => /\ n < 3
        /\ ret = NotYet
        /\ n > 0 => Failed(client.attempts[n])
  /\ client.pc = "done"
     => /\ n >= 1
        /\ IF Failed(client.attempts[n])
           THEN n = 3 /\ ret.kind = "raise"
           ELSE ret = client.attempts[n].result

\* C14 witness: an update failed on the connection, then with status 401, and
\* returned the ticket on the third attempt.
C14_Witness ==
  /\ op.name = "update_ticket"
  /\ client.pc = "done"
  /\ Len(client.attempts) = 3
  /\ client.attempts[1].result.kind = "raise"
  /\ client.attempts[1].result.error.type = "ConnectionError"
  /\ client.attempts[2].answer = Some(Response(401, TextBody("error body")))
  /\ client.attempts[3].result.kind = "return"
  /\ ret = client.attempts[3].result

\* C15: the wait after the k-th failed attempt is 1 * 2^(k-1) brought into 4..10, and
\* no wait follows the final attempt.
C15_BackoffClamped ==
  /\ \A k \in DOMAIN client.sleeps :
       LET e == 1 * 2 ^ (k - 1) IN
       /\ client.sleeps[k] >= 4
       /\ client.sleeps[k] <= 10
       /\ client.sleeps[k] = IF e < 4 THEN 4 ELSE IF e > 10 THEN 10 ELSE e
  /\ Len(client.sleeps) = IF client.pc = "done"
                          THEN Len(client.attempts) - 1
                          ELSE Len(client.attempts)

\* C15 witness: an invocation gave up after three failed attempts, having waited
\* twice.
C15_Witness ==
  /\ client.pc = "done"
  /\ Len(client.attempts) = 3
  /\ Failed(client.attempts[3])
  /\ client.sleeps = <<4, 4>>

\* C16: response validation decides by status code: 429 the rate-limit error, 401 the
\* authentication error, 500 and above the server error, the rest of 400..499 the
\* generic API error carrying the body, below 400 the parsed body or, the body not
\* being JSON, a data error; every error is of a class derived from FreshdeskError,
\* an API error or a data error.
C16_ValidationOutcome ==
  op.name = "_validate_response"
  => LET c == op.response.status_code
         body == op.response.body
         raises(type, text) ==
           ret.kind = "raise" /\ ret.error.type = type /\ ret.error.text = text
     IN  /\ c = 429 => raises("FreshdeskAPIError", "Rate limit exceeded")
         /\ c = 401 => raises("FreshdeskAPIError", "Authentication failed")
         /\ c >= 500 => /\ raises("FreshdeskAPIError", "Freshdesk server error: ")
                        /\ ret.error.arg = <<c>>
         /\ c \in (400..499) \ {401, 429}
            => /\ raises("FreshdeskAPIError", "API error: ")
               /\ ret.error.arg = <<body.text>>
         /\ c < 400 /\ body.json # None
            => ret.kind = "return" /\ ret.value = body.json[1]
         /\ c < 400 /\ body.json = None
            => raises("FreshdeskDataError", "Invalid JSON response")
         /\ ret.kind = "raise"
            => /\ ret.error.type \in {"FreshdeskAPIError", "FreshdeskDataError"}
               /\ Bases[ret.error.type] = "FreshdeskError"

\* C16 witness: status 500, the lowest server status, was validated and gave the
\* server error naming the status.
C16_Witness ==
  /\ op.name = "_validate_response"
  /\ op.response.status_code = 500
  /\ ret.kind = "raise"
  /\ ret.error.text = "Freshdesk server error: "
  /\ ret.error.arg = <<500>>

\* C17: every decision and every response that exists has its confidence within
\* 0.00..1.00, both ends allowed; constructing either with a confidence below 0.00 or
\* above 1.00 fails validation.
C17_ConfidenceInRange ==
  /\ op.name \in {"AgentAction", "ITSupportResponse"}
     => LET c == op.kwargs.confidence
            others == IF op.name = "AgentAction"
                      THEN /\ op.kwargs.action_type \in {"create_ticket", "ask_question"}
                           /\ op.kwargs.reasoning # None
                      ELSE op.kwargs.understanding # None
        IN  /\ ret.kind = "return"
               => ret.value.confidence >= 0 /\ ret.value.confidence <= 100
            /\ c # None /\ (c[1] < 0 \/ c[1] > 100)
               => /\ ret.kind = "raise"
                  /\ ret.error.type = "ValidationError"
                  /\ "confidence" \in ret.error.arg
            /\ c # None /\ c[1] >= 0 /\ c[1] <= 100 /\ others
               => ret.kind = "return" /\ ret.value.confidence = c[1]
  /\ op.name = "process_message" /\ ret.kind = "return"
     => /\ ret.value.confidence \in 0..100
        /\ ret.value.agent_action.confidence \in 0..100

\* C17 witness: a response was constructed with confidence 1.00, the upper end.
C17_Witness ==
  /\ op.name = "ITSupportResponse"
  /\ op.kwargs.confidence = Some(100)
  /\ ret.kind = "return"
  /\ ret.value.confidence = 100

\* C18: every directive that exists has priority absent or in 1..4, construction with
\* any other priority fails validation, and no create or update call carries a
\* priority outside 1..4.
C18_PriorityInRange ==
  /\ op.name = "TicketAction"
     => LET p == op.kwargs.priority IN
        /\ ret.kind = "return"
           => ret.value.priority = None \/ ret.value.priority[1] \in 1..4
        /\ p # None /\ p[1] \notin 1..4
           => /\ ret.kind = "raise"
              /\ ret.error.type = "ValidationError"
              /\ "priority" \in ret.error.arg
        /\ (p = None \/ p[1] \in 1..4) /\ op.kwargs.action # "invalid_action"
           /\ op.kwargs.reasoning # None
           => ret.kind = "return" /\ ret.value.priority = p
  /\ \A i \in DOMAIN calls : calls[i].priority = None \/ calls[i].priority[1] \in 1..4

\* C18 witness: a turn was generated with a create directive of priority 0; its
\* construction failed and the turn made no ticketing call.
C18_Witness ==
  /\ op.name = "process_message"
  /\ op.generated.ticket_action # None
  /\ op.generated.ticket_action[1].action = "create"
  /\ op.generated.ticket_action[1].priority = Some(0)
  /\ op.generated.confidence = Some(95)
  /\ op.generated.agent_action.confidence = Some(92)
  /\ op.generated.agent_action.action_type = "create_ticket"
  /\ ret.kind = "raise"
  /\ calls = <<>>

UnknownAction(kw) == kw.action \notin {"create", "update", "resolve", "escalate"}

UnknownActionType(kw) ==
  kw.action_type \notin { "create_ticket", "update_ticket", "ask_question",
                          "provide_solution", "escalate", "verify_solution" }

\* C19: a directive or a decision with an unknown action value fails at construction:
\* the constructor raises a validation error and touches no context, makes no call
\* and emits no event; a turn generated with such a value raises without a ticketing
\* call, a change of ticket_id or a ticket or message_processed event.
C19_UnknownActionFails ==
  [][ /\ \/ op'.name = "TicketAction" /\ UnknownAction(op'.kwargs)
         \/ op'.name = "AgentAction" /\ UnknownActionType(op'.kwargs)
         => /\ ret'.kind = "raise"
            /\ ret'.error.type = "ValidationError"
            /\ heap' = heap
            /\ contexts' = contexts
            /\ calls' = <<>>
            /\ events' = <<>>
      /\ /\ op'.name = "process_message"
         /\ \/ UnknownActionType(op'.generated.agent_action)
            \/ /\ op'.generated.ticket_action # None
               /\ UnknownAction(op'.generated.ticket_action[1])
         => /\ ret'.kind = "raise"
            /\ calls' = <<>>
            /\ heap'[op'.context].ticket_id = heap[op'.context].ticket_id
            /\ EventTypes(events') = {"processing_error"} ]_vars

\* C19 witness: a turn was generated with a directive whose action is unknown and a
\* decision that is valid; the turn raised and made no ticketing call.
C19_Witness ==
  /\ op.name = "process_message"
  /\ op.generated.ticket_action # None
  /\ UnknownAction(op.generated.ticket_action[1])
  /\ op.generated.ticket_action[1].priority = Some(4)
  /\ ~UnknownActionType(op.generated.agent_action)
  /\ op.generated.agent_action.confidence = Some(92)
  /\ op.generated.confidence = Some(95)
  /\ ret.kind = "raise"
  /\ calls = <<>>
  /\ EventTypes(events) = {"processing_error"}

\* C20: constructing a directive with a missing or an empty reasoning fails
\* validation, so every directive that exists has a non-empty reasoning.
C20_ReasoningNonEmpty ==
  op.name = "TicketAction"
  => /\ op.kwargs.reasoning \in {None, Some("")} => ret.kind = "raise"
     /\ ret.kind = "return" => ret.value.reasoning # ""


\* C21: constructing a directive with action create and no subject or no description
\* fails validation, and every create call a turn issues carries a subject and a
\* description that are present.
C21_CreateCarriesText ==
  [][ /\ /\ op'.name = "TicketAction"
         /\ op'.kwargs.action = "create"
         /\ op'.kwargs.subject = None \/ op'.kwargs.description = None
         => ret'.kind = "raise"
      /\ \A i \in DOMAIN calls' :
           calls'[i].op = "create_ticket"
           => IsSet(calls'[i].subject) /\ IsSet(calls'[i].description) ]_vars


\* the entries of a configuration list whose backend constructs
Initialized(handlers) == { i \in DOMAIN handlers : handlers[i].raises = None }

RegisteredNames(self) == { self.handlers[k].name : k \in DOMAIN self.handlers }

\* C22: constructing the router registers exactly the backends that initialize, each
\* under its name, and logs one line for each that does not; construction raises (a
\* ValueError, and no router exists) exactly when none initializes; otherwise the
\* active backend is the instance of the first entry, in list order, that initialized.
C22_RouterConstruction ==
  [][ op'.name = "LLMController"
      => LET handlers == op'.handlers
             ok == Initialized(handlers)
         IN  /\ ok = {} <=> ret'.kind = "raise"
             /\ ok = {} => ret'.error.type = "ValueError" /\ router' = None
             /\ Len(log') = Len(log) + Len(handlers) - Cardinality(ok)
             /\ ok # {}
                => LET first == CHOOSE i \in ok : \A j \in ok : i <= j IN
                   /\ router' # None
                   /\ RegisteredNames(router'[1]) = { handlers[i].name : i \in ok }
                   /\ \A i \in ok : GetItem(router'[1].handlers, handlers[i].name)
                                    = Instance(handlers[i], i)
                   /\ router'[1].current_handler = Some(Instance(handlers[first], first))
                   /\ get_handler_name(router'[1]) = Some(handlers[first].name) ]_vars

\* C22 witness: of three configured backends the first failed to initialize and the
\* other two were registered; the second is the active one.
C22_Witness ==
  /\ op.name = "LLMController"
  /\ Len(op.handlers) = 3
  /\ Initialized(op.handlers) = {2, 3}
  /\ ret.kind = "return"
  /\ router # None
  /\ RegisteredNames(router[1]) = {"OpenAI", "Gemini"}
  /\ get_handler_name(router[1]) = Some("OpenAI")
  /\ Len(log) = 1

\* C23: switch_handler(name) returns True and makes name's backend the active one
\* exactly when name is registered; for any other name it returns False and changes
\* nothing in the router; the registry never changes, and the active backend of a
\* router is always one of its registered backends.
C23_SwitchHandler ==
  [][ /\ op'.name = "switch_handler"
         => LET name == op'.handler_name
                known == Contains(router[1].handlers, name)
            IN  /\ ret' = Return(known)
                /\ router'[1].handlers = router[1].handlers
                /\ known => /\ router'[1].current_handler
                               = Some(GetItem(router[1].handlers, name))
                            /\ get_handler_name(router'[1]) = Some(name)
                /\ ~known => router' = router
      /\ router' # None
         => \E k \in DOMAIN router'[1].handlers :
              router'[1].current_handler = Some(router'[1].handlers[k].handler) ]_vars

\* C23 witness: a switch to a registered backend other than the default returned True
\* and made it the active one.
C23_Witness ==
  /\ op.name = "switch_handler"
  /\ op.handler_name = "Gemini"
  /\ ret = Return(TRUE)
  /\ router[1].default_handler = Some("Ollama")
  /\ get_handler_name(router[1]) = Some("Gemini")
  /\ Len(router[1].handlers) = 3


\* C25: generate_with_schema either returns an object that conforms to the requested
\* schema or raises a GenerationError; it asks the chat model at most once.
C25_GenerateStructured ==
  op.name = "generate_with_schema"
  => /\ \/ ret.kind = "return" /\ ret.value \in Responses
        \/ ret.kind = "raise" /\ ret.error.type = "GenerationError"
     /\ Len(llm_calls[1].outcome.requests) <= 1

GenerationFailures(lg) == { i \in DOMAIN lg : lg[i].text = GENERATION_ERROR_TEXT }

OneStructuredCall(cs, text) ==
  /\ Len(cs) = 1
  /\ cs[1].output_schema = "ITSupportResponse"
  /\ Len(cs[1].messages) = 2
  /\ cs[1].messages[1] = [role |-> "system", content |-> SYSTEM_PROMPT]
  /\ cs[1].messages[2] = [role |-> "user", content |-> text]

\* C24: every process invocation, made directly or by the chat adapter, calls the
\* router's structured generation exactly once, with the ITSupportResponse schema and
\* two messages: the fixed system instruction, then a user message whose content is
\* the input message; this holds whatever the context holds and whether the call
\* succeeds or fails.
C24_OneStructuredCall ==
  [][ /\ op'.name = "process_message" => OneStructuredCall(llm_calls', op'.message)
      /\ op'.name = "handle_message" => OneStructuredCall(llm_calls', op'.event.text) ]_vars

\* C24 witness: a turn on a context that already holds a ticket made its single router
\* call, the call failed, and the turn raised without calling again.
C24_Witness ==
  /\ op.name = "process_message"
  /\ IsSet(heap[op.context].ticket_id)
  /\ OneStructuredCall(llm_calls, op.message)
  /\ ~llm_calls[1].outcome.ok
  /\ ret.kind = "raise"


\* the step is an invocation, not a tick of the clock
Invoked == now' = now

\* C27: a directive with action resolve or escalate, on a context with or without a
\* ticket, makes no ticketing call and raises nothing.  Applied directly it emits no
\* event and changes no context; applied by process, the context changes only by the
\* refresh of last_updated that opens every turn, the one event of the turn is
\* message_processed, and the response is returned.
C27_ResolveEscalateNoOp ==
  [][ \A r \in DOMAIN heap : \A d \in Directives :
        d.action \in {"resolve", "escalate"} /\ Invoked /\ Applies(r, d)
        => /\ calls' = <<>>
           /\ ret'.kind = "return"
           /\ contexts' = contexts
           /\ op'.name = "_handle_ticket_action" => heap' = heap /\ events' = <<>>
           /\ op'.name = "process_message"
              => /\ heap' = [heap EXCEPT ![r].last_updated = now]
                 /\ Len(events') = 1
                 /\ events'[1].event_type = "message_processed"
                 /\ ret'.value = llm_calls'[1].outcome.response ]_vars

\* C27 witness: a turn at a later instant, on a context that holds a ticket, carried
\* an escalate directive; it made no call, emitted message_processed alone and
\* returned the response.
C27_Witness ==
  /\ op.name = "process_message"
  /\ ret.kind = "return"
  /\ ret.value.ticket_action # None
  /\ ret.value.ticket_action[1].action = "escalate"
  /\ Truthy(heap[op.context].ticket_id)
  /\ heap[op.context].last_updated = 1
  /\ calls = <<>>
  /\ EventTypes(events) = {"message_processed"}


TicketEventTypes == {"ticket_created", "ticket_updated", "ticket_error"}

\* C28: an update directive applied, directly or by process, to a context whose
\* ticket_id is None makes no ticketing call at all, raises nothing, emits no ticket
\* event and leaves ticket_id None.
C28_UpdateWithoutTicket ==
  [][ \A r \in DOMAIN heap : \A d \in Directives :
        d.action = "update" /\ heap[r].ticket_id = None /\ Applies(r, d)
        => /\ calls' = <<>>
           /\ ret'.kind = "return"
           /\ EventTypes(events') \cap TicketEventTypes = {}
           /\ heap'[r].ticket_id = None ]_vars

\* C28 witness: a turn carried an update directive on a context that has no ticket;
\* it returned the response without a ticketing call.
C28_Witness ==
  /\ op.name = "process_message"
  /\ ret.kind = "return"
  /\ ret.value.ticket_action # None
  /\ ret.value.ticket_action[1].action = "update"
  /\ heap[op.context].ticket_id = None
  /\ calls = <<>>
  /\ EventTypes(events) = {"message_processed"}


\* C29: every process invocation, whether it returns or raises, leaves the context's
\* last_updated at the instant the invocation read from the clock, which is no
\* earlier than the value it replaces; and no step of the engine ever moves a
\* context's last_updated back.
C29_LastUpdatedRefreshed ==
  [][ /\ Invoked /\ op'.name \in {"process_message", "handle_message"}
         => heap'[op'.context].last_updated = now
      /\ \A r \in DOMAIN heap :
           /\ heap[r].last_updated <= now
           /\ heap'[r].last_updated >= heap[r].last_updated ]_vars

\* C29 witness: a turn made after the clock had advanced failed, and the context,
\* created at the first instant, carries the later instant.
C29_Witness ==
  /\ op.name = "process_message"
  /\ ret.kind = "raise"
  /\ now = 1
  /\ heap[op.context].last_updated = 1
  /\ \E i \in DOMAIN events : events[i].event_type = "processing_error"


MessageProcessed(es) == { i \in DOMAIN es : es[i].event_type = "message_processed" }

\* C30: a process invocation that returns emits message_processed exactly once, as
\* the last event of the turn, carrying the ticket_id the context holds after the
\* turn's ticket action, the decision's action type, the response's confidence and
\* its human-intervention flag; an invocation that raises emits none.
C30_MessageProcessedLast ==
  [][ op'.name = "process_message"
      => /\ ret'.kind = "raise" => MessageProcessed(events') = {}
         /\ ret'.kind = "return"
            => LET e == events'[Len(events')]
                   response == ret'.value
               IN  /\ MessageProcessed(events') = {Len(events')}
                   /\ e.ticket_id = heap'[op'.context].ticket_id
                   /\ e.action_taken = response.agent_action.action_type
                   /\ e.details = Some([ confidence |-> response.confidence,
                                         needs_human |->
                                           response.needs_human_intervention ]) ]_vars

\* C30 witness: a turn opened a ticket; ticket_created came first and the
\* message_processed event after it reports the new ticket.
C30_Witness ==
  /\ op.name = "process_message"
  /\ ret.kind = "return"
  /\ Len(events) = 2
  /\ events[1].event_type = "ticket_created"
  /\ events[2].event_type = "message_processed"
  /\ events[2].ticket_id = Some(1)
  /\ events[2].action_taken = "create_ticket"
  /\ heap[op.context].ticket_id = Some(1)


\* C31: a ticket object with status in {2,3,4,5} and priority in {1,2,3,4}
\* deserializes to a record whose status and priority are the members with exactly
\* those values (OPEN for 2, LOW for 1, ...), and the body update_ticket builds from
\* the record's status and priority carries the same two integers.
C31_StatusPriorityRoundTrip ==
  [][ /\ /\ op'.name = "from_api_response"
         /\ op'.data.status[1] \in {2, 3, 4, 5}
         /\ op'.data.priority[1] \in {1, 2, 3, 4}
         => /\ ret'.kind = "return"
            /\ ret'.value.status.cls = "TicketStatus"
            /\ ret'.value.status.value = op'.data.status[1]
            /\ ret'.value.priority.cls = "TicketPriority"
            /\ ret'.value.priority.value = op'.data.priority[1]
            /\ op'.data.status[1] = 2 => ret'.value.status.value = TicketStatus.OPEN
            /\ op'.data.priority[1] = 1 => ret'.value.priority.value = TicketPriority.LOW
      /\ op'.name = "update_ticket" /\ op.name = "from_api_response"
         => LET sent == client'.attempts[1].request[1].json[1] IN
            /\ sent.status = op.data.status
            /\ sent.priority = op.data.priority ]_vars

\* C31 witness: a ticket read with status 5 and priority 4 was written back by
\* update_ticket with 5 and 4 in the body.
C31_Witness ==
  /\ op.name = "update_ticket"
  /\ op.status = Member("TicketStatus", TicketStatus.CLOSED)
  /\ op.priority = Member("TicketPriority", TicketPriority.URGENT)
  /\ Len(client.attempts) = 1
  /\ client.attempts[1].request[1].json[1].status = Some(5)
  /\ client.attempts[1].request[1].json[1].priority = Some(4)
  /\ ret.kind = "return"


\* the requests the invocation in progress has sent so far
Sent(c) == { i \in DOMAIN c.attempts : c.attempts[i].request # None }

\* C32: every body update_ticket sends holds the status key exactly when a status was
\* supplied and the priority key exactly when a priority was supplied, each with the
\* supplied member's value; a field that was not supplied is absent from the body.
C32_UpdateBodyPartial ==
  op.name = "update_ticket"
  => \A i \in Sent(client) :
       LET request == client.attempts[i].request[1]
           json == request.json[1]
       IN  /\ request.method = "PUT"
           /\ request.ticket_id = Some(op.ticket_id)
           /\ json.status # None <=> op.status # PyNone
           /\ json.priority # None <=> op.priority # PyNone
           /\ op.status # PyNone => json.status = Some(op.status.value)
           /\ op.priority # PyNone => json.priority = Some(op.priority.value)

\* C32 witness: an update that supplied a priority and no status sent a body with
\* the priority alone.
C32_Witness ==
  /\ op.name = "update_ticket"
  /\ op.status = PyNone
  /\ op.priority = Member("TicketPriority", TicketPriority.HIGH)
  /\ Sent(client) = {1}
  /\ client.attempts[1].request[1].json[1].status = None
  /\ client.attempts[1].request[1].json[1].priority = Some(3)
  /\ ret.kind = "return"


DefaultHeaders == {"Authorization", "Content-Type"}

\* C33: no step changes the client's own headers, which are Authorization and
\* Content-Type; every request upload_attachment sends carries Authorization and no
\* Content-Type, and every request of the other operations carries both.
C33_UploadLeavesHeaders ==
  [][ /\ client.headers = DefaultHeaders
      /\ client'.headers = client.headers
      /\ \A i \in Sent(client') :
           client'.attempts[i].request[1].headers
           = IF op'.name = "upload_attachment" THEN {"Authorization"}
             ELSE DefaultHeaders ]_vars

\* C33 witness: an upload was sent without Content-Type, as a multipart request, and
\* the client still holds both headers.
C33_Witness ==
  /\ op.name = "upload_attachment"
  /\ Sent(client) = {1}
  /\ client.attempts[1].request[1].headers = {"Authorization"}
  /\ client.attempts[1].request[1].files # None
  /\ client.headers = DefaultHeaders
  /\ ret.kind = "return"

\* the create calls the turns on context ref have issued, answered or not
CreateCallsFor(ref) ==
  { i \in TasksNamed(tasks, "process_message") :
      /\ tasks[i].context = ref
      /\ IsSet(tasks[i].call)
      /\ tasks[i].call[1].op = "create_ticket" }

\* C34: however two turns on one context interleave, the ticketing client is asked
\* at most once to create a ticket for that context
C34_OneCreatePerContext ==
  \A ref \in DOMAIN heap : Cardinality(CreateCallsFor(ref)) <= 1

\* two get_or_create_context calls made for one conversation with one key
SameConversation(a, b) ==
  /\ a.user_id = b.user_id
  /\ a.channel_id = b.channel_id
  /\ a.thread_ts = b.thread_ts
  /\ a.conversation_id = b.conversation_id

\* a key under which the store holds nothing: none at all, or an id no context carries
NewKey(conversation_id) ==
  \/ conversation_id = None
  \/ \A r \in DOMAIN heap : heap[r].conversation_id # conversation_id[1]

Registered(ref) ==
  /\ heap[ref].conversation_id \in DOMAIN contexts
  /\ contexts[heap[ref].conversation_id] = ref

\* C35: two get_or_create_context calls for the same conversation with the same new
\* key, in whatever order the event loop runs them, leave two distinct contexts with
\* different conversation_ids, both registered in the store
C35_SameKeyDivergentContexts ==
  \A i, j \in TasksNamed(tasks, "get_or_create_context") :
    (i < j /\ SameConversation(tasks[i], tasks[j]) /\ NewKey(tasks[i].conversation_id))
      => /\ tasks[i].context # tasks[j].context
         /\ heap[tasks[i].context].conversation_id # heap[tasks[j].context].conversation_id
         /\ Registered(tasks[i].context)
         /\ Registered(tasks[j].context)

\* two calls with the same supplied key have both returned
C35_Witness ==
  \E i, j \in TasksNamed(tasks, "get_or_create_context") :
    /\ i < j
    /\ SameConversation(tasks[i], tasks[j])
    /\ IsSet(tasks[i].conversation_id)
    /\ NewKey(tasks[i].conversation_id)
    /\ heap[tasks[i].context].conversation_id # heap[tasks[j].context].conversation_id
    /\ Registered(tasks[i].context)
    /\ Registered(tasks[j].context)

\* an attempt whose request the backend answered with a success status
AnsweredWithSuccess(a) ==
  /\ IsSet(a.request)
  /\ a.answer[1].kind = "response"
  /\ a.answer[1].status_code >= 200
  /\ a.answer[1].status_code < 300

\* C36: within one create_ticket invocation, once a POST /tickets has been answered
\* with a success status no later attempt sends the request again
C36_AnsweredCreateNotResent ==
  op.name = "create_ticket"
    => \A i, j \in DOMAIN client.attempts :
         (i < j /\ AnsweredWithSuccess(client.attempts[i]))
           => ~IsSet(client.attempts[j].request)

\* C37: every context is in one of the eight declared workflow states, namely initial,
\* after whatever the engine has done, and every audit event reports initial
C37_WorkflowStateInitial ==
  /\ Cardinality(WorkflowState) = 8
  /\ \A r \in DOMAIN heap :
       heap[r].current_state \in WorkflowState /\ heap[r].current_state = "initial"
  /\ \A i \in DOMAIN events : events[i].workflow_state = "initial"

\* a turn whose directive was resolve has returned and logged its event
C37_Witness ==
  /\ op.name = "process_message"
  /\ ret.kind = "return"
  /\ IsSet(ret.value.ticket_action)
  /\ ret.value.ticket_action[1].action = "resolve"
  /\ "message_processed" \in EventTypes(events)
  /\ heap[op.context].current_state = "initial"

\* C38: a process_message or _handle_ticket_action invocation, returning or raising,
\* leaves the store's keys and every other context as they were, and changes nothing
\* of the context it is given except last_updated and ticket_id
C38_TurnFrame ==
  [][ (Invoked /\ op'.name \in {"process_message", "_handle_ticket_action"})
        => /\ contexts' = contexts
           /\ DOMAIN heap' = DOMAIN heap
           /\ \A r \in DOMAIN heap : r # op'.context => heap'[r] = heap[r]
           /\ heap'[op'.context] =
                [heap[op'.context] EXCEPT !.last_updated = heap'[op'.context].last_updated,
                                          !.ticket_id = heap'[op'.context].ticket_id] ]_vars

\* a turn on one of two contexts has opened a ticket at a later instant than the
\* context was created
C38_Witness ==
  /\ op.name = "process_message"
  /\ Len(heap) = 2
  /\ IsSet(heap[op.context].ticket_id)
  /\ heap[op.context].last_updated = now
  /\ now > 0
  /\ \E r \in DOMAIN heap : r # op.context /\ heap[r].last_updated < now

\* C39: every attempt of a create_ticket call the agent makes for a directive sends a
\* POST /tickets body whose status is one of 2..5 and whose priority is one of 1..4,
\* with OPEN and MEDIUM where the directive carries none
C39_DirectiveCreateBody ==
  (op.name = "create_ticket" /\ op.email = REQUESTER_EMAIL)
    => \A i \in DOMAIN client.attempts :
         LET a == client.attempts[i] IN
         /\ IsSet(a.request)
         /\ a.request[1].json[1].status \in EnumValues(TicketStatus)
         /\ a.request[1].json[1].priority \in EnumValues(TicketPriority)
         /\ op.status = PyNone => a.request[1].json[1].status = TicketStatus.OPEN
         /\ op.priority = PyNone => a.request[1].json[1].priority = TicketPriority.MEDIUM

\* the turn inside the latest handle_message raised
TurnFailed == "processing_error" \in EventTypes(events)

\* C40: handle_message sends exactly one reply, into the event's thread (thread_ts,
\* else ts): the blocks rendered from the response when process_message returned,
\* the fixed error text when it raised; handle_message itself returns normally
C40_OneReplyPerEvent ==
  op.name = "handle_message"
    => /\ Len(says) = 1
       /\ says[1].thread_ts = Some(ThreadOf(op.event))
       /\ ret = Return(None)
       /\ IF TurnFailed
          THEN says[1].text = ERROR_TEXT /\ "blocks" \notin DOMAIN says[1]
          ELSE /\ "blocks" \in DOMAIN says[1]
               /\ says[1].blocks = Blocks(heap[op.context], llm_calls[1].outcome.response)
               /\ says[1].text = llm_calls[1].outcome.response.understanding

\* the first message of a thread, whose ticket step failed, has been answered
C40_Witness ==
  /\ op.name = "handle_message"
  /\ op.event.thread_ts = None
  /\ "ticket_error" \in EventTypes(events)
  /\ Len(says) = 1
  /\ says[1].text = ERROR_TEXT
  /\ says[1].thread_ts = Some(op.event.ts)

=============================================================================
